---- MODULE Spec2Model ----
(***************************************************************************)
(* Model of the flat-file catalog store of MovieZoneBot (src/database.py)  *)
(* and of the role lookup of the chat front end (src/main.py).             *)
(*                                                                         *)
(* Every collection is one JSON document.  A JSON object is modelled as a  *)
(* sequence of entries [k |-> key, v |-> value]: Python dicts and the json *)
(* module keep insertion order, and several operations depend on it.       *)
(* A text is modelled as the sequence of its character codes where its     *)
(* characters are inspected (movie titles), and as a TLA+ string where it  *)
(* is only compared for equality (keys, short names, categories).          *)
(***************************************************************************)
EXTENDS Integers, Sequences, FiniteSets, TLC

VARIABLES
    movies_file,    \* content of data/movies.json
    requests_file,  \* content of data/requests.json
    users_file,     \* content of data/users.json
    admins_file,    \* content of data/admins.json
    channels_file,  \* content of data/channels.json
    tokens_file,    \* content of data/tokens.json
    held,           \* the value a caller keeps from a read, and what the
                    \* caller has made of it since
    callers,        \* for every caller inside a write operation: the
                    \* operation, its arguments and the document it loaded
    conversation,   \* for every user: the state of the ConversationHandler
    keyboard,       \* for every user: the callback data of the buttons of
                    \* the last message of the conversation
    user_data,      \* for every user: context.user_data
    movies_table,   \* the rows of the hosted movies table
    movie_files,    \* the rows of the hosted movie_files table
    download_tokens,\* the rows of the hosted download_tokens table
    dialogue,       \* history, for every user: the number of conversations
                    \* begun, and of the last one: the command, the role
                    \* found, the title entered and the ids of the movies
                    \* created
    users_table,    \* the role rows of the hosted users table, by telegram_id
    now,            \* datetime.now(): logical time of the next stamp
    last,           \* the last completed call: operation, arguments, result
    issued          \* history: the ids add_movie / add_movie_request returned,
                    \* in order, and for every movie id the number of calls
                    \* of increment_download_count made for it since

\* the processes or threads that call the store
Callers == {"a", "b"}

\* the state of the bot of main.py, and the state no operation of database.py
\* on the five collections touches
bot_state == <<conversation, keyboard, user_data, movies_table, movie_files,
               download_tokens, dialogue>>

other_state == <<tokens_file, held, callers, bot_state>>

\* the state of the store of database.py
store_state == <<movies_file, requests_file, users_file, admins_file,
                 channels_file, tokens_file, now, issued, held, callers>>

vars == <<movies_file, requests_file, users_file, admins_file, channels_file,
          users_table, now, last, issued,
          other_state>>

-----------------------------------------------------------------------------
(* Bounds of the model.                                                    *)

\* add_movie / add_movie_request are not called once next_id exceeds MaxId
MaxId == 3
\* no operation stamps a time once the clock has reached MaxClock
MaxClock == 4
\* no user begins more than MaxDialogues conversations
MaxDialogues == 2
\* increment_download_count is not called on a movie that has MaxDownloads
MaxDownloads == 2
\* the paginated queries are called with limits and offsets up to MaxLimit
MaxLimit == 2

-----------------------------------------------------------------------------
(* Python values.                                                          *)

\* None
None == "None"

\* config.OWNER_ID is 5379553841; the model uses a small stand-in because
\* only equality with other identities is ever tested.
OWNER_ID == 3

\* the numeric identities (Telegram user ids) of the model
UserIds == {1, 2, OWNER_ID}

Digit == <<"0", "1", "2", "3", "4", "5", "6", "7", "8", "9">>

\* str(n) for a non-negative int
RECURSIVE Str(_)
Str(n) == IF n < 10 THEN Digit[n + 1]
          ELSE Str(n \div 10) \o Digit[(n % 10) + 1]

Min(a, b) == IF a < b THEN a ELSE b
Max(a, b) == IF a > b THEN a ELSE b

\* seq[start:stop] of Python, negative and out-of-range indices included
PySlice(seq, start, stop) ==
    LET n == Len(seq)
        a == IF start < 0 THEN Max(start + n, 0) ELSE Min(start, n)
        b == IF stop < 0 THEN Max(stop + n, 0) ELSE Min(stop, n)
    IN  IF a < b THEN SubSeq(seq, a + 1, b) ELSE <<>>

\* one character of str.lower(), on ASCII codes
LowerChar(c) == IF c >= 65 /\ c <= 90 THEN c + 32 ELSE c

\* str.lower()
Lower(s) == SubSeq([i \in 1..Len(s) |-> LowerChar(s[i])], 1, Len(s))

\* s < t for two Python strings: lexicographic on the character codes
RECURSIVE StrLess(_, _)
StrLess(s, t) ==
    IF t = <<>> THEN FALSE
    ELSE IF s = <<>> THEN TRUE
    ELSE IF s[1] # t[1] THEN s[1] < t[1]
    ELSE StrLess(Tail(s), Tail(t))

-----------------------------------------------------------------------------
(* Python dicts, in insertion order.                                       *)

DictKeys(d) == {d[i].k : i \in 1..Len(d)}

\* key in d
DictHas(d, key) == key \in DictKeys(d)

DictIndex(d, key) == CHOOSE i \in 1..Len(d) : d[i].k = key

\* d[key]
DictGet(d, key) == d[DictIndex(d, key)].v

\* d[key] = value: in place for a present key, at the end for a new one
DictSet(d, key, value) ==
    IF DictHas(d, key)
    THEN [d EXCEPT ![DictIndex(d, key)] = [k |-> key, v |-> value]]
    ELSE Append(d, [k |-> key, v |-> value])

\* del d[key]
DictDel(d, key) ==
    LET i == DictIndex(d, key)
    IN  SubSeq(d, 1, i - 1) \o SubSeq(d, i + 1, Len(d))

\* list(d.values())
DictValues(d) == [i \in 1..Len(d) |-> d[i].v]

\* rec.get(field, default) on a record
Get(rec, field, default) ==
    IF field \in DOMAIN rec THEN rec[field] ELSE default

-----------------------------------------------------------------------------
(* Storage.                                                                *)

\* What a file of the data directory holds: a JSON document, or one of two
\* other conditions.  A document is a record (movies, requests) or a sequence
\* of entries (users, admins, channels), so the two conditions are told apart
\* from documents by their shape: one field, whose value is a condition record.
NoFile == [storage |-> [exists |-> FALSE]]
InvalidJSON == [storage |-> [valid |-> FALSE]]

\* open(file_path, 'r') raises FileNotFoundError
FileNotFoundError(file) ==
    /\ Cardinality(DOMAIN file) = 1
    /\ \A x \in DOMAIN file : file[x] = [exists |-> FALSE]

\* json.load(f) raises json.JSONDecodeError
JSONDecodeError(file) ==
    /\ Cardinality(DOMAIN file) = 1
    /\ \A x \in DOMAIN file : file[x] = [valid |-> FALSE]

\* the empty dict {}
EmptyDict == <<>>

\* load_json(file_path): the document of the file, {} for a file that does not
\* exist or does not hold JSON
load_json(file) ==
    IF FileNotFoundError(file) THEN EmptyDict
    ELSE IF JSONDecodeError(file) THEN EmptyDict
    ELSE file

\* d[key] raises KeyError
KeyError(d, key) == key \notin DOMAIN d

\* save_json: the document replaces the content of the file
save_json(file, data) == data

\* save_json(file_path, data) when the write raises, which the except clause
\* logs: open(file_path, 'w') raising leaves the file as it was; json.dump
\* raising leaves the file open() truncated with the part json.dump had
\* written, which is not a JSON document
save_json_raising(file, data, exception) ==
    CASE exception = "PermissionError" -> file
      [] exception = "TypeError" -> InvalidJSON

\* The documents initialize_database writes for files that do not exist.
EmptyMovies == [next_id |-> 1, movies |-> <<>>]
EmptyRequests == [next_id |-> 1, requests |-> <<>>]
EmptyMapping == <<>>

\* the six files of initialize_database, by name, and their default_data
files_to_init ==
    [users |-> EmptyMapping, admins |-> EmptyMapping, movies |-> EmptyMovies,
     channels |-> EmptyMapping, requests |-> EmptyRequests,
     tokens |-> EmptyMapping]

\* initialize_database that writes the default_data over every file
initialize_database_overwrite(files) ==
    [file_path \in DOMAIN files_to_init |-> files_to_init[file_path]]

\* initialize_database(): os.makedirs makes the directory of the files, and
\* every file that does not exist gets its default_data; a file that exists is
\* not opened, whatever it holds
initialize_database(files) ==
    [file_path \in DOMAIN files_to_init |->
        IF FileNotFoundError(files[file_path])
        THEN files_to_init[file_path]
        ELSE files[file_path]]

-----------------------------------------------------------------------------
(* Movies.                                                                 *)

\* add_movie, a version that forgets to advance the counter
add_movie_stuck(file, movie_data, t) ==
    LET movies == load_json(file)
        movie_id == movies.next_id
        stamped == [movie_id |-> movie_id, added_at |-> t,
                    download_count |-> 0] @@ movie_data
        after == [movies EXCEPT
                    !.movies = DictSet(movies.movies, Str(movie_id), stamped)]
    IN  [file |-> save_json(file, after), ret |-> movie_id]

\* add_movie that lets the fields of the data win over the stamped ones
add_movie_data_first(file, movie_data, t) ==
    LET movies == load_json(file)
        movie_id == movies.next_id
        stamps == [movie_id |-> movie_id, added_at |-> t, download_count |-> 0]
        stamped == [f \in DOMAIN movie_data \cup DOMAIN stamps |->
                       IF f \in DOMAIN movie_data THEN movie_data[f] ELSE stamps[f]]
        after == [movies EXCEPT
                    !.movies = DictSet(movies.movies, Str(movie_id), stamped),
                    !.next_id = movies.next_id + 1]
    IN  [file |-> save_json(file, after), ret |-> movie_id]

\* add_movie(movie_data) at time t: the new file content and the result
add_movie(file, movie_data, t) ==
    LET movies == load_json(file)
        movie_id == movies.next_id
        stamped == [movie_id |-> movie_id, added_at |-> t,
                    download_count |-> 0] @@ movie_data
        after == [movies EXCEPT
                    !.movies = DictSet(movies.movies, Str(movie_id), stamped),
                    !.next_id = movies.next_id + 1]
    IN  [file |-> save_json(file, after), ret |-> movie_id]

\* delete_movie that hands the id of the newest movie out again
delete_movie_reuse(file, movie_id) ==
    LET movies == load_json(file)
        movie_id_str == Str(movie_id)
    IN  IF DictHas(movies.movies, movie_id_str)
        THEN [file |-> save_json(file,
                  [movies EXCEPT
                      !.movies = DictDel(movies.movies, movie_id_str),
                      !.next_id = IF movie_id = movies.next_id - 1
                                  THEN movie_id ELSE movies.next_id]),
              ret |-> TRUE]
        ELSE [file |-> file, ret |-> FALSE]

\* delete_movie that reports success for a movie that is not there
delete_movie_always_true(file, movie_id) ==
    LET movies == load_json(file)
        movie_id_str == Str(movie_id)
    IN  IF DictHas(movies.movies, movie_id_str)
        THEN [file |-> save_json(file,
                  [movies EXCEPT !.movies = DictDel(movies.movies, movie_id_str)]),
              ret |-> TRUE]
        ELSE [file |-> file, ret |-> TRUE]

\* delete_movie(movie_id)
delete_movie(file, movie_id) ==
    LET movies == load_json(file)
        movie_id_str == Str(movie_id)
    IN  IF DictHas(movies.movies, movie_id_str)
        THEN [file |-> save_json(file,
                  [movies EXCEPT !.movies = DictDel(movies.movies, movie_id_str)]),
              ret |-> TRUE]
        ELSE [file |-> file, ret |-> FALSE]

\* increment_download_count that starts a record for a movie that is not there
increment_download_count_creates(file, movie_id) ==
    LET movies == load_json(file)
        movie_id_str == Str(movie_id)
        m == IF DictHas(movies.movies, movie_id_str)
             THEN DictGet(movies.movies, movie_id_str) ELSE <<>>
        m2 == [download_count |-> Get(m, "download_count", 0) + 1] @@ m
    IN  [file |-> save_json(file,
             [movies EXCEPT !.movies = DictSet(movies.movies, movie_id_str, m2)]),
         ret |-> None]

\* increment_download_count that counts from the default every time
increment_download_count_from_default(file, movie_id) ==
    LET movies == load_json(file)
        movie_id_str == Str(movie_id)
    IN  IF DictHas(movies.movies, movie_id_str)
        THEN LET m == DictGet(movies.movies, movie_id_str)
                 m2 == [download_count |-> 0 + 1] @@ m
             IN  [file |-> save_json(file,
                      [movies EXCEPT !.movies = DictSet(movies.movies, movie_id_str, m2)]),
                  ret |-> None]
        ELSE [file |-> file, ret |-> None]

\* increment_download_count(movie_id)
increment_download_count(file, movie_id) ==
    LET movies == load_json(file)
        movie_id_str == Str(movie_id)
    IN  IF DictHas(movies.movies, movie_id_str)
        THEN LET m == DictGet(movies.movies, movie_id_str)
                 m2 == [download_count |-> Get(m, "download_count", 0) + 1] @@ m
             IN  [file |-> save_json(file,
                      [movies EXCEPT !.movies = DictSet(movies.movies, movie_id_str, m2)]),
                  ret |-> None]
        ELSE [file |-> file, ret |-> None]

\* get_movie_details(movie_id): movies["movies"].get(str(movie_id))
get_movie_details(file, movie_id) ==
    LET movies == load_json(file)
    IN  IF DictHas(movies.movies, Str(movie_id))
        THEN DictGet(movies.movies, Str(movie_id))
        ELSE None

\* str.upper of one ASCII character and of a string
UpperChar(c) == IF c >= 97 /\ c <= 122 THEN c - 32 ELSE c
Upper(s) == SubSeq([i \in 1..Len(s) |-> UpperChar(s[i])], 1, Len(s))

\* sub in s, for strings
Contains(sub, s) ==
    \E i \in 0..(Len(s) - Len(sub)) : SubSeq(s, i + 1, i + Len(sub)) = sub

\* The loop of search_movies and of get_movies_by_first_letter from the i-th
\* movie on: a movie that matches is appended to results, and the loop breaks
\* as soon as len(results) >= limit.  hits[i] tells whether values[i] matches.
RECURSIVE CollectFrom(_, _, _, _, _)
CollectFrom(values, hits, limit, i, results) ==
    IF i > Len(values) THEN results
    ELSE IF hits[i]
         THEN LET appended == Append(results, values[i])
              IN  IF Len(appended) >= limit THEN appended
                  ELSE CollectFrom(values, hits, limit, i + 1, appended)
         ELSE CollectFrom(values, hits, limit, i + 1, results)

\* search_movies(query, limit)
search_movies(file, query, limit) ==
    LET movies == load_json(file)
        values == DictValues(movies.movies)
        query_lower == Lower(query)
        hits == [i \in 1..Len(values) |->
                    Contains(query_lower, Lower(Get(values[i], "title", <<>>)))]
    IN  CollectFrom(values, hits, limit, 1, <<>>)

\* get_movies_by_first_letter(letter, limit)
get_movies_by_first_letter(file, letter, limit) ==
    LET movies == load_json(file)
        values == DictValues(movies.movies)
        letter_upper == Upper(letter)
        hits == [i \in 1..Len(values) |->
                    LET title == Get(values[i], "title", <<>>)
                    IN  title # <<>> /\ Upper(<<title[1]>>) = letter_upper]
    IN  CollectFrom(values, hits, limit, 1, <<>>)

\* list.sort(key=..., reverse=...) for numeric keys: a stable sort.  keys[i]
\* is the sort key of seq[i]; the smaller key sorts first, with reverse the
\* greater one; elements whose keys are equal keep their order either way.
StableSort(seq, keys, reverse) ==
    LET n == Len(seq)
        \* the place of seq[i] in the result
        place == [i \in 1..n |->
                     1 + Cardinality({j \in 1..n :
                             \/ IF reverse THEN keys[j] > keys[i] ELSE keys[j] < keys[i]
                             \/ keys[j] = keys[i] /\ j < i})]
        rank == SubSeq(place, 1, n)
    IN  [r \in 1..n |-> seq[CHOOSE i \in 1..n : rank[i] = r]]

\* Texts as sort keys: the key of texts[i] is the number of texts that are
\* less than it, which orders the elements as the texts themselves do.
TextKeys(texts) ==
    LET n == Len(texts)
        below == [i \in 1..n |->
                     Cardinality({j \in 1..n : StrLess(texts[j], texts[i])})]
    IN  SubSeq(below, 1, n)

\* BROWSE_CATEGORIES[0], "All" followed by a globe emoji in the source; the
\* emoji suffixes of the category names are left out of the model's strings
ALL_CATEGORY == "All"

\* the sort keys of get_movies_by_category: x.get('title', '').lower()
TitleKeys(matching) ==
    LET n == Len(matching)
        lowered == [i \in 1..n |-> Lower(Get(matching[i], "title", <<>>))]
    IN  SubSeq(lowered, 1, n)

\* the titles as they are written
RawTitles(matching) ==
    LET n == Len(matching)
        titles == [i \in 1..n |-> Get(matching[i], "title", <<>>)]
    IN  SubSeq(titles, 1, n)

\* the movies get_movies_by_category collects, without the special case of
\* the "All" category
MatchingMovies_no_all(movies, category) ==
    SelectSeq(DictValues(movies.movies),
              LAMBDA movie_data :
                  LET categories == Get(movie_data, "categories", <<>>)
                  IN  \E i \in 1..Len(categories) : categories[i] = category)

\* the movies get_movies_by_category collects before it sorts
MatchingMovies(movies, category) ==
    IF category = ALL_CATEGORY
    THEN DictValues(movies.movies)
    ELSE SelectSeq(DictValues(movies.movies),
                   LAMBDA movie_data :
                       LET categories == Get(movie_data, "categories", <<>>)
                       IN  \E i \in 1..Len(categories) : categories[i] = category)

\* get_movies_by_category that sorts by the title as written
get_movies_by_category_rawsort(file, category, limit, offset) ==
    LET movies == load_json(file)
        matching == MatchingMovies(movies, category)
        all_matching == StableSort(matching, TextKeys(RawTitles(matching)), FALSE)
    IN  PySlice(all_matching, offset, offset + limit)

\* get_movies_by_category that slices [offset, limit) instead of
\* [offset, offset + limit)
get_movies_by_category_badslice(file, category, limit, offset) ==
    LET movies == load_json(file)
        matching == MatchingMovies(movies, category)
        all_matching == StableSort(matching, TextKeys(TitleKeys(matching)), FALSE)
    IN  PySlice(all_matching, offset, limit)

\* get_movies_by_category(category, limit, offset)
get_movies_by_category(file, category, limit, offset) ==
    LET movies == load_json(file)
        matching == MatchingMovies(movies, category)
        all_matching == StableSort(matching, TextKeys(TitleKeys(matching)), FALSE)
        start_index == offset
        end_index == offset + limit
    IN  PySlice(all_matching, start_index, end_index)

\* movies.values() in get_movies_by_uploader: the values of the top-level
\* document in the order of its keys, "next_id" before "movies", an int and a
\* dict
TopLevelValues(movies) ==
    IF movies = EmptyDict THEN <<>>
    ELSE <<[int |-> movies.next_id], [dict |-> movies.movies]>>

\* movie.get raises AttributeError: an int has no attribute 'get'
AttributeError(movie) == "int" \in DOMAIN movie

\* get_movies_by_uploader(admin_id, limit): what it returns, or the exception
\* it raises.  The comprehension calls .get('added_by') on every value of the
\* top-level document; for the dict of the movies that is a lookup of a movie
\* with the id 'added_by'.
get_movies_by_uploader(file, admin_id, limit) ==
    LET movies == load_json(file)
        values == TopLevelValues(movies)
    IN  IF \E i \in 1..Len(values) : AttributeError(values[i])
        THEN [raised |-> "AttributeError"]
        ELSE LET admin_movies == SelectSeq(values, LAMBDA movie :
                     /\ DictHas(movie.dict, "added_by")
                     /\ DictGet(movie.dict, "added_by") = admin_id)
                 keys == [i \in 1..Len(admin_movies) |->
                             IF DictHas(admin_movies[i].dict, "added_at")
                             THEN DictGet(admin_movies[i].dict, "added_at") ELSE 0]
             IN  [ret |-> PySlice(StableSort(admin_movies, keys, TRUE), 0, limit)]
-----------------------------------------------------------------------------
(* Requests.                                                               *)

\* add_movie_request(user_id, movie_name) at time t
add_movie_request(file, user_id, movie_name, t) ==
    LET requests == load_json(file)
        request_id == requests.next_id
        request == [request_id |-> request_id, user_id |-> user_id,
                    movie_name |-> movie_name, status |-> "pending",
                    requested_at |-> t]
        after == [requests EXCEPT
                    !.requests = DictSet(requests.requests, Str(request_id), request),
                    !.next_id = requests.next_id + 1]
    IN  [file |-> save_json(file, after), ret |-> request_id]

\* the pending requests where a request of an unknown user carries a record
\* made up from the id of the request
PendingWithUsers_stub(requests, users) ==
    LET pending == SelectSeq(DictValues(requests.requests),
                       LAMBDA request_data :
                           Get(request_data, "status", None) = "pending")
        user_info(request_data) ==
            IF DictHas(users, Str(request_data.user_id))
            THEN DictGet(users, Str(request_data.user_id))
            ELSE [user_id |-> request_data.user_id]
    IN  [i \in 1..Len(pending) |->
            [users |-> user_info(pending[i])] @@ pending[i]]

\* the pending requests, each with the record of its user attached, in the
\* order of the collection
PendingWithUsers(requests, users) ==
    LET pending == SelectSeq(DictValues(requests.requests),
                       LAMBDA request_data :
                           Get(request_data, "status", None) = "pending")
        user_info(request_data) ==
            IF DictHas(users, Str(request_data.user_id))
            THEN DictGet(users, Str(request_data.user_id))
            ELSE <<>>
    IN  [i \in 1..Len(pending) |->
            [users |-> user_info(pending[i])] @@ pending[i]]

\* the sort keys of get_pending_requests: x.get("request_id", 0)
RequestIdKeys(pending) ==
    LET n == Len(pending)
        ids == [i \in 1..n |-> Get(pending[i], "request_id", 0)]
    IN  SubSeq(ids, 1, n)

\* get_pending_requests that sorts oldest first
get_pending_requests_ascending(rfile, ufile, limit, offset) ==
    LET pending == PendingWithUsers(load_json(rfile), load_json(ufile))
        all_pending == StableSort(pending, RequestIdKeys(pending), FALSE)
    IN  PySlice(all_pending, offset, offset + limit)

\* get_pending_requests(limit, offset)
get_pending_requests(rfile, ufile, limit, offset) ==
    LET requests == load_json(rfile)
        users == load_json(ufile)
        pending == PendingWithUsers(requests, users)
        all_pending == StableSort(pending, RequestIdKeys(pending), TRUE)
        start_index == offset
        end_index == offset + limit
    IN  PySlice(all_pending, start_index, end_index)

\* get_total_pending_requests_count that counts the requests of every status
get_total_pending_requests_count_all(file) ==
    LET requests == load_json(file)
    IN  Len(DictValues(requests.requests))

\* get_total_pending_requests_count()
get_total_pending_requests_count(file) ==
    LET requests == load_json(file)
    IN  Len(SelectSeq(DictValues(requests.requests),
                LAMBDA request_data : Get(request_data, "status", None) = "pending"))

\* update_request_status that starts a record for a request that is not there
update_request_status_creates(file, request_id, status, t) ==
    LET requests == load_json(file)
        request_id_str == Str(request_id)
        request == IF DictHas(requests.requests, request_id_str)
                   THEN DictGet(requests.requests, request_id_str) ELSE <<>>
        updated == [status |-> status, updated_at |-> t] @@ request
    IN  [file |-> save_json(file,
             [requests EXCEPT
                 !.requests = DictSet(requests.requests, request_id_str, updated)]),
         ret |-> updated]

\* update_request_status that drops a request it is told to close
update_request_status_drops(file, request_id, status, t) ==
    LET requests == load_json(file)
        request_id_str == Str(request_id)
    IN  IF DictHas(requests.requests, request_id_str)
        THEN LET updated == [status |-> status, updated_at |-> t]
                                @@ DictGet(requests.requests, request_id_str)
             IN  [file |-> save_json(file,
                      [requests EXCEPT !.requests =
                          IF status = "pending"
                          THEN DictSet(requests.requests, request_id_str, updated)
                          ELSE DictDel(requests.requests, request_id_str)]),
                  ret |-> updated]
        ELSE [file |-> file, ret |-> None]

\* update_request_status(request_id, status) at time t
update_request_status(file, request_id, status, t) ==
    LET requests == load_json(file)
        request_id_str == Str(request_id)
    IN  IF DictHas(requests.requests, request_id_str)
        THEN LET updated == [status |-> status, updated_at |-> t]
                                @@ DictGet(requests.requests, request_id_str)
             IN  [file |-> save_json(file,
                      [requests EXCEPT
                          !.requests = DictSet(requests.requests, request_id_str, updated)]),
                  ret |-> updated]
        ELSE [file |-> file, ret |-> None]

-----------------------------------------------------------------------------
(* Users.                                                                  *)

\* add_user_if_not_exists that stamps the user again when it updates it
add_user_if_not_exists_restamp(file, user_id, first_name, username, t) ==
    LET users == load_json(file)
        user_id_str == Str(user_id)
    IN  IF ~DictHas(users, user_id_str)
        THEN [file |-> save_json(file,
                  DictSet(users, user_id_str,
                      [user_id |-> user_id, first_name |-> first_name,
                       username |-> username, joined_at |-> t,
                       is_active |-> TRUE])),
              ret |-> TRUE, saved |-> TRUE]
        ELSE LET user == DictGet(users, user_id_str)
                 updated == \/ Get(user, "first_name", None) # first_name
                            \/ Get(user, "username", None) # username
                 user2 == [first_name |-> first_name, username |-> username,
                           joined_at |-> t] @@ user
             IN  [file |-> IF updated
                           THEN save_json(file, DictSet(users, user_id_str, user2))
                           ELSE file,
                  ret |-> FALSE, saved |-> updated]

\* add_user_if_not_exists(user_id, first_name, username) at time t: the new
\* file content, the result, and whether save_json was called
add_user_if_not_exists(file, user_id, first_name, username, t) ==
    LET users == load_json(file)
        user_id_str == Str(user_id)
    IN  IF ~DictHas(users, user_id_str)
        THEN [file |-> save_json(file,
                  DictSet(users, user_id_str,
                      [user_id |-> user_id, first_name |-> first_name,
                       username |-> username, joined_at |-> t,
                       is_active |-> TRUE])),
              ret |-> TRUE, saved |-> TRUE]
        ELSE LET user == DictGet(users, user_id_str)
                 updated == \/ Get(user, "first_name", None) # first_name
                            \/ Get(user, "username", None) # username
                 user2 == [first_name |-> first_name, username |-> username] @@ user
             IN  [file |-> IF updated
                           THEN save_json(file, DictSet(users, user_id_str, user2))
                           ELSE file,
                  ret |-> FALSE, saved |-> updated]

-----------------------------------------------------------------------------
(* Admins and channels.                                                    *)

\* get_user_role that looks the identity up among the admins first
get_user_role_admin_first(file, user_id) ==
    IF DictHas(load_json(file), Str(user_id)) THEN "admin"
    ELSE IF user_id = OWNER_ID THEN "owner"
    ELSE "user"

\* get_user_role(user_id) of the flat-file store
get_user_role(file, user_id) ==
    IF user_id = OWNER_ID THEN "owner"
    ELSE LET admins == load_json(file)
         IN  IF DictHas(admins, Str(user_id)) THEN "admin" ELSE "user"

\* user_exists(user_id)
user_exists(file, user_id) ==
    LET users == load_json(file)
    IN  DictHas(users, Str(user_id))

\* get_admin_info(admin_id): admins.get(str(admin_id))
get_admin_info(file, admin_id) ==
    LET admins == load_json(file)
    IN  IF DictHas(admins, Str(admin_id))
        THEN DictGet(admins, Str(admin_id))
        ELSE None

\* get_all_admins()
get_all_admins(file) ==
    LET admins == load_json(file)
    IN  DictValues(admins)

\* get_channel_info(channel_id): channels.get(channel_id)
get_channel_info(file, channel_id) ==
    LET channels == load_json(file)
    IN  IF DictHas(channels, channel_id)
        THEN DictGet(channels, channel_id)
        ELSE None

\* get_all_channels()
get_all_channels(file) ==
    LET channels == load_json(file)
    IN  DictValues(channels)

\* add_admin that overwrites the record of an admin who is already present
add_admin_overwrite(file, admin_id, short_name, first_name, username, t) ==
    LET admins == load_json(file)
        admin_id_str == Str(admin_id)
    IN  [file |-> save_json(file,
              DictSet(admins, admin_id_str,
                  [user_id |-> admin_id, short_name |-> short_name,
                   first_name |-> first_name, username |-> username,
                   added_at |-> t])),
         ret |-> ~DictHas(admins, admin_id_str)]

\* add_admin(admin_id, short_name, first_name, username) at time t
add_admin(file, admin_id, short_name, first_name, username, t) ==
    LET admins == load_json(file)
        admin_id_str == Str(admin_id)
    IN  IF DictHas(admins, admin_id_str)
        THEN [file |-> file, ret |-> FALSE]
        ELSE [file |-> save_json(file,
                  DictSet(admins, admin_id_str,
                      [user_id |-> admin_id, short_name |-> short_name,
                       first_name |-> first_name, username |-> username,
                       added_at |-> t])),
              ret |-> TRUE]

\* the positions of the records whose short name is the identifier
ShortNameMatches(d, identifier) ==
    {i \in 1..Len(d) : Get(d[i].v, "short_name", None) = identifier}

\* the first position of a non-empty set of positions: where the for loop
\* over d.items() stops
FirstOf(positions) == CHOOSE i \in positions : \A j \in positions : i <= j

LastOf(positions) == CHOOSE i \in positions : \A j \in positions : i >= j

\* remove_admin that tries the short names before the keys
remove_admin_short_name_first(file, identifier) ==
    LET admins == load_json(file)
        matches == ShortNameMatches(admins, identifier)
    IN  IF matches # {}
        THEN [file |-> save_json(file, DictDel(admins, admins[FirstOf(matches)].k)),
              ret |-> TRUE]
        ELSE IF DictHas(admins, identifier)
        THEN [file |-> save_json(file, DictDel(admins, identifier)), ret |-> TRUE]
        ELSE [file |-> file, ret |-> FALSE]

\* remove_admin that removes the last record with the short name
remove_admin_last_match(file, identifier) ==
    LET admins == load_json(file)
        matches == ShortNameMatches(admins, identifier)
    IN  IF DictHas(admins, identifier)
        THEN [file |-> save_json(file, DictDel(admins, identifier)), ret |-> TRUE]
        ELSE IF matches # {}
        THEN [file |-> save_json(file, DictDel(admins, admins[LastOf(matches)].k)),
              ret |-> TRUE]
        ELSE [file |-> file, ret |-> FALSE]

\* remove_admin(identifier)
remove_admin(file, identifier) ==
    LET admins == load_json(file)
        matches == ShortNameMatches(admins, identifier)
    IN  IF DictHas(admins, identifier)
        THEN [file |-> save_json(file, DictDel(admins, identifier)), ret |-> TRUE]
        ELSE IF matches # {}
        THEN [file |-> save_json(file, DictDel(admins, admins[FirstOf(matches)].k)),
              ret |-> TRUE]
        ELSE [file |-> file, ret |-> FALSE]

\* add_channel(channel_id, channel_name, short_name) at time t
add_channel(file, channel_id, channel_name, short_name, t) ==
    LET channels == load_json(file)
    IN  IF DictHas(channels, channel_id)
        THEN [file |-> file, ret |-> FALSE]
        ELSE [file |-> save_json(file,
                  DictSet(channels, channel_id,
                      [channel_id |-> channel_id, channel_name |-> channel_name,
                       short_name |-> short_name, added_at |-> t])),
              ret |-> TRUE]

\* remove_channel(identifier)
remove_channel(file, identifier) ==
    LET channels == load_json(file)
        matches == ShortNameMatches(channels, identifier)
    IN  IF DictHas(channels, identifier)
        THEN [file |-> save_json(file, DictDel(channels, identifier)), ret |-> TRUE]
        ELSE IF matches # {}
        THEN [file |-> save_json(file, DictDel(channels, channels[FirstOf(matches)].k)),
              ret |-> TRUE]
        ELSE [file |-> file, ret |-> FALSE]
-----------------------------------------------------------------------------
(* The hosted users table of the chat front end (src/main.py).             *)

\* OWNER_USER_ID, read from the environment; the same stand-in as OWNER_ID
OWNER_USER_ID == OWNER_ID

\* DatabaseManager.get_user_role(user_id); ok is whether the query to the
\* backend succeeds.  A query for a row that does not exist raises, too.
db_get_user_role(table, user_id, ok) ==
    IF user_id = OWNER_USER_ID THEN "owner"
    ELSE IF ok /\ user_id \in DOMAIN table THEN table[user_id]
    ELSE "user"

\* DatabaseManager.set_user_role(user_id, role): an upsert on telegram_id
db_set_user_role(table, user_id, role, ok) ==
    IF ok THEN [table |-> (user_id :> role) @@ table, ret |-> TRUE]
    ELSE [table |-> table, ret |-> FALSE]

\* DatabaseManager.remove_user_role(user_id): an update of the matching row
db_remove_user_role(table, user_id, ok) ==
    IF ok
    THEN [table |-> [id \in DOMAIN table |->
                        IF id = user_id THEN "user" ELSE table[id]],
          ret |-> TRUE]
    ELSE [table |-> table, ret |-> FALSE]

\* ConversationHandler.END and the conversation states of main.py
END == "END"
ADDING_MOVIE_TITLE == "ADDING_MOVIE_TITLE"
SELECTING_UPLOAD_TYPE == "SELECTING_UPLOAD_TYPE"
SELECTING_QUALITY == "SELECTING_QUALITY"
UPLOADING_FILE == "UPLOADING_FILE"
UPLOADING_EPISODE == "UPLOADING_EPISODE"
ADMIN_USER_ID == "ADMIN_USER_ID"

ROLE_OWNER == "owner"
ROLE_ADMIN == "admin"
ROLE_USER == "user"

\* The text of a message: a sequence of characters.  text.strip() drops the
\* blanks at both ends.
strip(text) ==
    LET kept == {i \in 1..Len(text) : text[i] # " "}
    IN  IF kept = {} THEN <<>>
        ELSE LET first == CHOOSE i \in kept : \A j \in kept : i <= j
                 final == CHOOSE i \in kept : \A j \in kept : j <= i
             IN  SubSeq(text, first, final)

DecimalDigits == <<"0", "1", "2", "3", "4", "5", "6", "7", "8", "9">>
IsDecimalDigit(c) == \E d \in 1..10 : DecimalDigits[d] = c
DecimalValue(c) == (CHOOSE d \in 1..10 : DecimalDigits[d] = c) - 1

\* int(text) raises ValueError unless text is decimal digits after an optional
\* sign
ValueError(text) ==
    LET digits == IF text # <<>> /\ text[1] \in {"+", "-"} THEN Tail(text) ELSE text
    IN  \/ digits = <<>>
        \/ \E i \in 1..Len(digits) : ~IsDecimalDigit(digits[i])

RECURSIVE DecimalNumber(_)
DecimalNumber(digits) ==
    IF digits = <<>> THEN 0
    ELSE 10 * DecimalNumber(SubSeq(digits, 1, Len(digits) - 1))
             + DecimalValue(digits[Len(digits)])

\* int(text) of a text that does not raise ValueError
int(text) ==
    IF text[1] = "-" THEN 0 - DecimalNumber(Tail(text))
    ELSE IF text[1] = "+" THEN DecimalNumber(Tail(text))
    ELSE DecimalNumber(text)

\* DatabaseManager.create_movie(title, movie_type, created_by): the id of the
\* inserted row, or None when the insert raises or returns no data
db_create_movie(table, title, movie_type, created_by, ok) ==
    IF ok
    THEN LET id == Len(table) + 1
         IN  [table |-> Append(table, [id |-> id, title |-> title,
                                       type |-> movie_type,
                                       created_by |-> created_by]),
              ret |-> id, created |-> TRUE]
    ELSE [table |-> table, ret |-> None, created |-> FALSE]

\* DatabaseManager.add_movie_file(movie_id, quality, file_id)
db_add_movie_file(rows, movie_id, quality, file_id, ok) ==
    IF ok
    THEN [rows |-> Append(rows, [movie_id |-> movie_id, quality |-> quality,
                                 file_id |-> file_id, episode_number |-> None]),
          ret |-> TRUE]
    ELSE [rows |-> rows, ret |-> FALSE]

\* DatabaseManager.create_download_token(movie_id, quality): the token, which
\* stands for str(uuid.uuid4()), or "" when the insert raises
db_create_download_token(rows, movie_id, quality, ok) ==
    IF ok
    THEN LET token == Str(Len(rows) + 1)
         IN  [rows |-> Append(rows, [token |-> token, movie_id |-> movie_id,
                                     quality |-> quality]),
              ret |-> token]
    ELSE [rows |-> rows, ret |-> ""]

\* BotHandlers.add_admin that lets admins in as well
bot_add_admin_staff(role) ==
    IF role \notin {ROLE_OWNER, ROLE_ADMIN} THEN END ELSE ADMIN_USER_ID

\* BotHandlers.add_admin: the state it returns for the role of the caller
bot_add_admin(role) ==
    IF role # ROLE_OWNER THEN END ELSE ADMIN_USER_ID

\* BotHandlers.add_movie that lets every caller in
bot_add_movie_open(role) ==
    ADDING_MOVIE_TITLE

\* BotHandlers.add_movie: the state it returns for the role of the caller
bot_add_movie(role) ==
    IF role \notin {ROLE_OWNER, ROLE_ADMIN} THEN END ELSE ADDING_MOVIE_TITLE

\* all_qualities of receive_movie_file
all_qualities == <<"480p", "720p", "1080p">>

\* remaining_qualities that leaves out nothing
remaining_qualities_all(uploaded_qualities) ==
    all_qualities

\* [q for q in all_qualities if q not in uploaded_qualities]
remaining_qualities(uploaded_qualities) ==
    SelectSeq(all_qualities,
        LAMBDA q : \A i \in 1..Len(uploaded_qualities) : uploaded_qualities[i] # q)

\* sorted(uploaded_qualities): the order of str, in which "1080p" comes first
QualityRank(q) ==
    CASE q = "1080p" -> 1 [] q = "480p" -> 2 [] q = "720p" -> 3

sorted_qualities(uploaded_qualities) ==
    LET n == Len(uploaded_qualities)
        ranks == [i \in 1..n |-> QualityRank(uploaded_qualities[i])]
    IN  StableSort(uploaded_qualities, SubSeq(ranks, 1, n), FALSE)

\* the callback data of the buttons, and quality = query.data.replace(
\* "quality_", "")
UploadTypeButtons == {"upload_single", "upload_series"}
QualityButton(q) ==
    CASE q = "480p" -> "quality_480p"
      [] q = "720p" -> "quality_720p"
      [] q = "1080p" -> "quality_1080p"
QualityOf(data) ==
    CASE data = "quality_480p" -> "480p"
      [] data = "quality_720p" -> "720p"
      [] data = "quality_1080p" -> "1080p"
QualityButtons(qualities) ==
    {QualityButton(qualities[i]) : i \in 1..Len(qualities)}

\* BotHandlers.generate_single_movie_links: a token for every uploaded
\* quality, in sorted order, and the message with the links of the tokens that
\* were created; failed holds the qualities whose create_download_token raises
generate_single_movie_links(data, rows, failed) ==
    LET movie_id == data.movie_id
        movie_title == data.movie_title
        uploaded_qualities == data.uploaded_qualities
        sorted == sorted_qualities(uploaded_qualities)
        made == SelectSeq(sorted, LAMBDA q : q \notin failed)
        links == [i \in 1..Len(made) |->
                     [quality |-> made[i], token |-> Str(Len(rows) + i)]]
        tokens == [i \in 1..Len(made) |->
                      [token |-> Str(Len(rows) + i), movie_id |-> movie_id,
                       quality |-> made[i]]]
    IN  [rows |-> rows \o SubSeq(tokens, 1, Len(made)),
         message |-> [title |-> movie_title, movie_id |-> movie_id,
                      links |-> SubSeq(links, 1, Len(made))]]

-----------------------------------------------------------------------------
(* The state after initialize_database on an empty data directory.         *)

Init ==
    /\ movies_file = EmptyMovies
    /\ requests_file = EmptyRequests
    /\ users_file = EmptyMapping
    /\ admins_file = EmptyMapping
    /\ channels_file = EmptyMapping
    /\ tokens_file = EmptyMapping
    /\ held = <<>>
    /\ callers = [caller \in Callers |-> <<>>]
    /\ conversation = [user_id \in UserIds |-> END]
    /\ keyboard = [user_id \in UserIds |-> {}]
    /\ user_data = [user_id \in UserIds |-> <<>>]
    /\ movies_table = <<>>
    /\ movie_files = <<>>
    /\ download_tokens = <<>>
    /\ dialogue = [user_id \in UserIds |-> [number |-> 0]]
    /\ users_table = <<>>
    /\ now = 0
    /\ last = [op |-> "initialize_database", args |-> <<>>, ret |-> None]
    /\ issued = [movies |-> <<>>, requests |-> <<>>, increments |-> <<>>]

\* a call that returned ret, and a call that raised an exception
Call(op, args, ret) == [op |-> op, args |-> args, ret |-> ret]
Raise(op, args, exception) == [op |-> op, args |-> args, raised |-> exception]
Raised(call) == "raised" \in DOMAIN call

-----------------------------------------------------------------------------
(* One action per operation.                                               *)

AddMovie(movie_data) ==
    \* movies["next_id"] of the document load_json made of an unreadable file
    IF KeyError(load_json(movies_file), "next_id")
    THEN /\ last' = Raise("add_movie", <<movie_data>>, "KeyError")
         /\ UNCHANGED <<movies_file, requests_file, users_file, admins_file,
                        channels_file, users_table, now, issued, other_state>>
    ELSE /\ movies_file.next_id <= MaxId
         /\ now < MaxClock
         /\ LET r == add_movie(movies_file, movie_data, now)
            IN  /\ movies_file' = r.file
                /\ last' = Call("add_movie", <<movie_data>>, r.ret)
                /\ issued' = [issued EXCEPT !.movies = Append(@, r.ret),
                                            !.increments = (r.ret :> 0) @@ @]
         /\ now' = now + 1
         /\ UNCHANGED <<requests_file, users_file, admins_file, channels_file, users_table,
                        other_state>>

DeleteMovie(movie_id) ==
    \* movies["movies"] of the document load_json made of an unreadable file
    IF KeyError(load_json(movies_file), "movies")
    THEN /\ last' = Raise("delete_movie", <<movie_id>>, "KeyError")
         /\ UNCHANGED <<movies_file, requests_file, users_file, admins_file,
                        channels_file, users_table, now, issued, other_state>>
    ELSE /\ LET r == delete_movie(movies_file, movie_id)
            IN  /\ movies_file' = r.file
                /\ last' = Call("delete_movie", <<movie_id>>, r.ret)
         /\ UNCHANGED <<requests_file, users_file, admins_file, channels_file,
                        users_table, now, issued, other_state>>

IncrementDownloadCount(movie_id) ==
    \* movies["movies"] of the document load_json made of an unreadable file
    IF KeyError(load_json(movies_file), "movies")
    THEN /\ last' = Raise("increment_download_count", <<movie_id>>, "KeyError")
         /\ UNCHANGED <<movies_file, requests_file, users_file, admins_file,
                        channels_file, users_table, now, issued, other_state>>
    ELSE /\ \A i \in 1..Len(movies_file.movies) :
                movies_file.movies[i].k = Str(movie_id)
                    => Get(movies_file.movies[i].v, "download_count", 0) < MaxDownloads
         /\ movie_id \in DOMAIN issued.increments
                => issued.increments[movie_id] < MaxDownloads
         /\ LET r == increment_download_count(movies_file, movie_id)
            IN  /\ movies_file' = r.file
                /\ last' = Call("increment_download_count", <<movie_id>>, r.ret)
         /\ issued' = IF movie_id \in DOMAIN issued.increments
                      THEN [issued EXCEPT !.increments[movie_id] = @ + 1]
                      ELSE issued
         /\ UNCHANGED <<requests_file, users_file, admins_file, channels_file,
                        users_table, now, other_state>>

GetMovie(movie_id) ==
    IF KeyError(load_json(movies_file), "movies")
    THEN /\ last' = Raise("get_movie_details", <<movie_id>>, "KeyError")
         /\ UNCHANGED <<movies_file, requests_file, users_file, admins_file,
                        channels_file, users_table, now, issued, other_state>>
    ELSE /\ last' = Call("get_movie_details", <<movie_id>>,
                         get_movie_details(movies_file, movie_id))
         /\ UNCHANGED <<movies_file, requests_file, users_file, admins_file,
                        channels_file, users_table, now, issued, other_state>>

SearchMovies(query, limit) ==
    IF KeyError(load_json(movies_file), "movies")
    THEN /\ last' = Raise("search_movies", <<query, limit>>, "KeyError")
         /\ UNCHANGED <<movies_file, requests_file, users_file, admins_file,
                        channels_file, users_table, now, issued, other_state>>
    ELSE /\ last' = Call("search_movies", <<query, limit>>,
                         search_movies(movies_file, query, limit))
         /\ UNCHANGED <<movies_file, requests_file, users_file, admins_file,
                        channels_file, users_table, now, issued, other_state>>

GetMoviesByFirstLetter(letter, limit) ==
    IF KeyError(load_json(movies_file), "movies")
    THEN /\ last' = Raise("get_movies_by_first_letter", <<letter, limit>>, "KeyError")
         /\ UNCHANGED <<movies_file, requests_file, users_file, admins_file,
                        channels_file, users_table, now, issued, other_state>>
    ELSE /\ last' = Call("get_movies_by_first_letter", <<letter, limit>>,
                         get_movies_by_first_letter(movies_file, letter, limit))
         /\ UNCHANGED <<movies_file, requests_file, users_file, admins_file,
                        channels_file, users_table, now, issued, other_state>>

GetMoviesByUploader(admin_id, limit) ==
    /\ LET r == get_movies_by_uploader(movies_file, admin_id, limit)
       IN  last' = IF Raised(r)
                   THEN Raise("get_movies_by_uploader", <<admin_id, limit>>, r.raised)
                   ELSE Call("get_movies_by_uploader", <<admin_id, limit>>, r.ret)
    /\ UNCHANGED <<movies_file, requests_file, users_file, admins_file,
                   channels_file, users_table, now, issued, other_state>>

GetMoviesByCategory(category, limit, offset) ==
    \* movies["movies"] of the document load_json made of an unreadable file
    IF KeyError(load_json(movies_file), "movies")
    THEN /\ last' = Raise("get_movies_by_category", <<category, limit, offset>>, "KeyError")
         /\ UNCHANGED <<movies_file, requests_file, users_file, admins_file,
                        channels_file, users_table, now, issued, other_state>>
    ELSE /\ last' = Call("get_movies_by_category", <<category, limit, offset>>,
                         get_movies_by_category(movies_file, category, limit, offset))
         /\ UNCHANGED <<movies_file, requests_file, users_file, admins_file,
                        channels_file, users_table, now, issued, other_state>>

AddMovieRequest(user_id, movie_name) ==
    \* requests["next_id"] of the document load_json made of an unreadable file
    IF KeyError(load_json(requests_file), "next_id")
    THEN /\ last' = Raise("add_movie_request", <<user_id, movie_name>>, "KeyError")
         /\ UNCHANGED <<movies_file, requests_file, users_file, admins_file,
                        channels_file, users_table, now, issued, other_state>>
    ELSE /\ requests_file.next_id <= MaxId
         /\ now < MaxClock
         /\ LET r == add_movie_request(requests_file, user_id, movie_name, now)
            IN  /\ requests_file' = r.file
                /\ last' = Call("add_movie_request", <<user_id, movie_name>>, r.ret)
                /\ issued' = [issued EXCEPT !.requests = Append(@, r.ret)]
         /\ now' = now + 1
         /\ UNCHANGED <<movies_file, users_file, admins_file, channels_file, users_table,
                        other_state>>

UpdateRequestStatus(request_id, status) ==
    \* requests["requests"] of the document load_json made of an unreadable file
    IF KeyError(load_json(requests_file), "requests")
    THEN /\ last' = Raise("update_request_status", <<request_id, status>>, "KeyError")
         /\ UNCHANGED <<movies_file, requests_file, users_file, admins_file,
                        channels_file, users_table, now, issued, other_state>>
    ELSE /\ now < MaxClock
         /\ LET r == update_request_status(requests_file, request_id, status, now)
            IN  /\ requests_file' = r.file
                /\ last' = Call("update_request_status", <<request_id, status>>, r.ret)
                \* datetime.now() is read only when the request exists
                /\ now' = IF DictHas(requests_file.requests, Str(request_id))
                          THEN now + 1 ELSE now
         /\ UNCHANGED <<movies_file, users_file, admins_file, channels_file,
                        users_table, issued, other_state>>

\* The file of the movies or of the requests is deleted, or overwritten with
\* something that is not JSON, from outside the program.
MoviesFileUnreadable(condition) ==
    /\ movies_file' = condition
    /\ last' = Call("storage", <<"movies.json">>, None)
    /\ UNCHANGED <<requests_file, users_file, admins_file, channels_file,
                   users_table, now, issued, other_state>>

RequestsFileUnreadable(condition) ==
    /\ requests_file' = condition
    /\ last' = Call("storage", <<"requests.json">>, None)
    /\ UNCHANGED <<movies_file, users_file, admins_file, channels_file,
                   users_table, now, issued, other_state>>

UsersFileUnreadable(condition) ==
    /\ users_file' = condition
    /\ last' = Call("storage", <<"users.json">>, None)
    /\ UNCHANGED <<movies_file, requests_file, admins_file, channels_file,
                   users_table, now, issued, other_state>>

AdminsFileUnreadable(condition) ==
    /\ admins_file' = condition
    /\ last' = Call("storage", <<"admins.json">>, None)
    /\ UNCHANGED <<movies_file, requests_file, users_file, channels_file,
                   users_table, now, issued, other_state>>

ChannelsFileUnreadable(condition) ==
    /\ channels_file' = condition
    /\ last' = Call("storage", <<"channels.json">>, None)
    /\ UNCHANGED <<movies_file, requests_file, users_file, admins_file,
                   users_table, now, issued, other_state>>

TokensFileUnreadable(condition) ==
    /\ tokens_file' = condition
    /\ last' = Call("storage", <<"tokens.json">>, None)
    /\ UNCHANGED <<movies_file, requests_file, users_file, admins_file,
                   channels_file, users_table, now, issued, held, callers,
                   bot_state>>

\* the files of the data directory, by the names of files_to_init
DataFiles ==
    [users |-> users_file, admins |-> admins_file, movies |-> movies_file,
     channels |-> channels_file, requests |-> requests_file,
     tokens |-> tokens_file]

InitializeDatabase ==
    /\ LET files == initialize_database(DataFiles)
       IN  /\ users_file' = files.users
           /\ admins_file' = files.admins
           /\ movies_file' = files.movies
           /\ channels_file' = files.channels
           /\ requests_file' = files.requests
           /\ tokens_file' = files.tokens
    /\ last' = Call("initialize_database", <<>>, None)
    /\ UNCHANGED <<users_table, now, issued, held, callers, bot_state>>

\* the exceptions of the write of save_json: of open(), of json.dump()
SaveExceptions == {"PermissionError", "TypeError"}

\* a call that returned ret although its save_json logged an exception
CallSaving(op, args, ret, exception) ==
    [op |-> op, args |-> args, ret |-> ret, save |-> exception]

\* add_movie(movie_data) whose save_json logs an exception
AddMovieSaveRaises(movie_data, exception) ==
    IF KeyError(load_json(movies_file), "next_id")
    THEN /\ last' = Raise("add_movie", <<movie_data>>, "KeyError")
         /\ UNCHANGED <<movies_file, requests_file, users_file, admins_file,
                        channels_file, users_table, now, issued, other_state>>
    ELSE /\ movies_file.next_id <= MaxId
         /\ now < MaxClock
         /\ LET r == add_movie(movies_file, movie_data, now)
            IN  /\ movies_file' = save_json_raising(movies_file, r.file, exception)
                /\ last' = CallSaving("add_movie", <<movie_data>>, r.ret, exception)
                /\ issued' = [issued EXCEPT !.movies = Append(@, r.ret),
                                            !.increments = (r.ret :> 0) @@ @]
         /\ now' = now + 1
         /\ UNCHANGED <<requests_file, users_file, admins_file, channels_file,
                        users_table, other_state>>

\* delete_movie(movie_id) whose save_json logs an exception
DeleteMovieSaveRaises(movie_id, exception) ==
    IF KeyError(load_json(movies_file), "movies")
    THEN /\ last' = Raise("delete_movie", <<movie_id>>, "KeyError")
         /\ UNCHANGED <<movies_file, requests_file, users_file, admins_file,
                        channels_file, users_table, now, issued, other_state>>
    ELSE /\ LET r == delete_movie(movies_file, movie_id)
            IN  \* save_json is called only for a movie that is there
                IF r.ret
                THEN /\ movies_file' =
                            save_json_raising(movies_file, r.file, exception)
                     /\ last' = CallSaving("delete_movie", <<movie_id>>, r.ret,
                                           exception)
                ELSE /\ movies_file' = r.file
                     /\ last' = Call("delete_movie", <<movie_id>>, r.ret)
         /\ UNCHANGED <<requests_file, users_file, admins_file, channels_file,
                        users_table, now, issued, other_state>>

\* add_user_if_not_exists(...) whose save_json logs an exception
UpsertUserSeenSaveRaises(user_id, first_name, username, exception) ==
    /\ now < MaxClock
    /\ LET r == add_user_if_not_exists(users_file, user_id, first_name, username, now)
       IN  /\ IF r.saved
              THEN /\ users_file' =
                          save_json_raising(users_file, r.file, exception)
                   /\ last' = CallSaving("add_user_if_not_exists",
                                  <<user_id, first_name, username>>, r.ret,
                                  exception)
              ELSE /\ users_file' = r.file
                   /\ last' = Call("add_user_if_not_exists",
                                   <<user_id, first_name, username>>, r.ret)
           /\ now' = IF r.ret THEN now + 1 ELSE now
    /\ UNCHANGED <<movies_file, requests_file, admins_file, channels_file,
                   users_table, issued, other_state>>

UserExists(user_id) ==
    /\ last' = Call("user_exists", <<user_id>>, user_exists(users_file, user_id))
    /\ UNCHANGED <<movies_file, requests_file, users_file, admins_file,
                   channels_file, users_table, now, issued, other_state>>

GetAdminInfo(admin_id) ==
    /\ last' = Call("get_admin_info", <<admin_id>>,
                    get_admin_info(admins_file, admin_id))
    /\ UNCHANGED <<movies_file, requests_file, users_file, admins_file,
                   channels_file, users_table, now, issued, other_state>>

ListAdmins ==
    /\ last' = Call("get_all_admins", <<>>, get_all_admins(admins_file))
    /\ UNCHANGED <<movies_file, requests_file, users_file, admins_file,
                   channels_file, users_table, now, issued, other_state>>

GetChannelInfo(channel_id) ==
    /\ last' = Call("get_channel_info", <<channel_id>>,
                    get_channel_info(channels_file, channel_id))
    /\ UNCHANGED <<movies_file, requests_file, users_file, admins_file,
                   channels_file, users_table, now, issued, other_state>>

ListChannels ==
    /\ last' = Call("get_all_channels", <<>>, get_all_channels(channels_file))
    /\ UNCHANGED <<movies_file, requests_file, users_file, admins_file,
                   channels_file, users_table, now, issued, other_state>>

\* the reads that return one record or None, and the reads that return a
\* list of records
RecordReads == {"get_movie_details", "get_admin_info", "get_channel_info"}
ListReads ==
    {"search_movies", "get_movies_by_first_letter", "get_movies_by_category",
     "get_all_admins", "get_all_channels", "get_pending_requests"}

\* the last call was a read that gave its caller at least one record
ReturnedRecord ==
    /\ ~Raised(last)
    /\ CASE last.op = "get_movie_details" ->
                DictHas(load_json(movies_file).movies, Str(last.args[1]))
         [] last.op = "get_admin_info" ->
                DictHas(load_json(admins_file), Str(last.args[1]))
         [] last.op = "get_channel_info" ->
                DictHas(load_json(channels_file), last.args[1])
         [] last.op \in ListReads -> Len(last.ret) > 0
         [] OTHER -> FALSE

\* what a caller makes of a returned value: record["seen"] = True on the
\* record, on the first record of a list, or on the user record attached to
\* the first request
Change(op, ret) ==
    CASE op \in RecordReads -> [seen |-> TRUE] @@ ret
      [] op = "get_pending_requests" ->
             [ret EXCEPT ![1] = [users |-> [seen |-> TRUE] @@ ret[1].users] @@ @]
      [] OTHER -> [ret EXCEPT ![1] = [seen |-> TRUE] @@ @]

\* the caller changes the record get_movie_details returned, and the record is
\* an object of a document the next read reads again
ChangeReturned_in_store ==
    /\ ReturnedRecord
    /\ held' = [op |-> last.op, args |-> last.args, ret |-> last.ret,
                changed |-> Change(last.op, last.ret)]
    /\ movies_file' =
           IF last.op = "get_movie_details"
           THEN [movies_file EXCEPT !.movies =
                    DictSet(@, Str(last.args[1]), Change(last.op, last.ret))]
           ELSE movies_file
    /\ last' = Call("change", <<last.op>>, None)
    /\ UNCHANGED <<requests_file, users_file, admins_file,
                   channels_file, tokens_file, users_table, now, issued,
                   callers, bot_state>>

\* The caller changes a record a read returned. json.load of load_json builds
\* the objects of the document anew in every call and the reads keep none of
\* them, so the record changes in the hands of the caller only.
ChangeReturned ==
    /\ ReturnedRecord
    /\ held' = [op |-> last.op, args |-> last.args, ret |-> last.ret,
                changed |-> Change(last.op, last.ret)]
    /\ last' = Call("change", <<last.op>>, None)
    /\ UNCHANGED <<movies_file, requests_file, users_file, admins_file,
                   channels_file, tokens_file, users_table, now, issued,
                   callers, bot_state>>

\* the result of the read op(args) on the files as they are
Read(op, args) ==
    CASE op = "get_movie_details" -> get_movie_details(movies_file, args[1])
      [] op = "search_movies" -> search_movies(movies_file, args[1], args[2])
      [] op = "get_movies_by_first_letter" ->
             get_movies_by_first_letter(movies_file, args[1], args[2])
      [] op = "get_movies_by_category" ->
             get_movies_by_category(movies_file, args[1], args[2], args[3])
      [] op = "get_admin_info" -> get_admin_info(admins_file, args[1])
      [] op = "get_all_admins" -> get_all_admins(admins_file)
      [] op = "get_channel_info" -> get_channel_info(channels_file, args[1])
      [] op = "get_all_channels" -> get_all_channels(channels_file)
      [] op = "get_pending_requests" ->
             get_pending_requests(requests_file, users_file, args[1], args[2])

\* add_movie(movie_data) of a caller up to and with movies = load_json(...)
AddMovieLoad(caller, movie_data) ==
    /\ callers[caller] = <<>>
    /\ ~KeyError(load_json(movies_file), "next_id")
    /\ callers' = [callers EXCEPT ![caller] =
                      [op |-> "add_movie", args |-> <<movie_data>>,
                       movies |-> load_json(movies_file)]]
    /\ UNCHANGED <<movies_file, requests_file, users_file, admins_file,
                   channels_file, tokens_file, users_table, now, last, issued,
                   held, bot_state>>

\* the rest of add_movie: the document the caller loaded gets the movie and
\* is saved, and the id is returned
AddMovieSave(caller) ==
    /\ callers[caller] # <<>>
    /\ callers[caller].op = "add_movie"
    /\ callers[caller].movies.next_id <= MaxId
    /\ now < MaxClock
    /\ LET movie_data == callers[caller].args[1]
           r == add_movie(callers[caller].movies, movie_data, now)
       IN  /\ movies_file' = r.file
           /\ last' = Call("add_movie", <<movie_data>>, r.ret)
           /\ issued' = [issued EXCEPT !.movies = Append(@, r.ret),
                                       !.increments = (r.ret :> 0) @@ @]
    /\ now' = now + 1
    /\ callers' = [callers EXCEPT ![caller] = <<>>]
    /\ UNCHANGED <<requests_file, users_file, admins_file, channels_file,
                   tokens_file, users_table, held, bot_state>>

\* increment_download_count(movie_id) of a caller up to and with
\* movies = load_json(...)
IncrementDownloadCountLoad(caller, movie_id) ==
    /\ callers[caller] = <<>>
    /\ ~KeyError(load_json(movies_file), "movies")
    /\ movie_id \in DOMAIN issued.increments
           => issued.increments[movie_id] < MaxDownloads
    /\ callers' = [callers EXCEPT ![caller] =
                      [op |-> "increment_download_count", args |-> <<movie_id>>,
                       movies |-> load_json(movies_file)]]
    \* the call is counted when it begins
    /\ issued' = IF movie_id \in DOMAIN issued.increments
                 THEN [issued EXCEPT !.increments[movie_id] = @ + 1]
                 ELSE issued
    /\ UNCHANGED <<movies_file, requests_file, users_file, admins_file,
                   channels_file, tokens_file, users_table, now, last, held,
                   bot_state>>

\* the rest of increment_download_count: the count of the document the caller
\* loaded is raised and the document is saved
IncrementDownloadCountSave(caller) ==
    /\ callers[caller] # <<>>
    /\ callers[caller].op = "increment_download_count"
    /\ LET movie_id == callers[caller].args[1]
           r == increment_download_count(callers[caller].movies, movie_id)
       IN  /\ movies_file' =
                  IF DictHas(callers[caller].movies.movies, Str(movie_id))
                  THEN r.file
                  ELSE movies_file
           /\ last' = Call("increment_download_count", <<movie_id>>, r.ret)
    /\ callers' = [callers EXCEPT ![caller] = <<>>]
    /\ UNCHANGED <<requests_file, users_file, admins_file, channels_file,
                   tokens_file, users_table, now, issued, held, bot_state>>

\* The ConversationHandler of the dialogues: an entry point runs for a user
\* who is in no conversation, the handler of a state runs for a user whose
\* conversation is in that state, and the state the handler returns is the
\* state of the conversation afterwards.
Dispatch(user_id, state) == conversation[user_id] = state

\* a handler that returned a state, and a handler that also sent the links
Handled(op, args, state) == [op |-> op, args |-> args, ret |-> state]
HandledWithLinks(op, args, state, message) ==
    [op |-> op, args |-> args, ret |-> state, message |-> message]

\* the history of a conversation that begins
Begun(user_id, command, role) ==
    [dialogue EXCEPT ![user_id] =
        [number |-> @.number + 1, command |-> command, role |-> role,
         title |-> None, created |-> <<>>, files |-> <<>>]]

\* BotHandlers.add_admin, the entry point /add_admin; ok is whether the query
\* for the role succeeds
AddAdminCommand(user_id, ok) ==
    /\ Dispatch(user_id, END)
    /\ dialogue[user_id].number < MaxDialogues
    /\ LET role == db_get_user_role(users_table, user_id, ok)
       IN  /\ conversation' = [conversation EXCEPT ![user_id] = bot_add_admin(role)]
           /\ dialogue' = Begun(user_id, "add_admin", role)
           /\ last' = Handled("BotHandlers.add_admin", <<user_id>>,
                              bot_add_admin(role))
    /\ UNCHANGED <<store_state, users_table, keyboard, user_data, movies_table,
                   movie_files, download_tokens>>

\* BotHandlers.receive_admin_user_id, the handler of ADMIN_USER_ID
ReceiveAdminUserId(user_id, text, ok) ==
    /\ Dispatch(user_id, ADMIN_USER_ID)
    /\ IF ValueError(strip(text))
       THEN /\ last' = Handled("BotHandlers.receive_admin_user_id",
                               <<user_id, text>>, ADMIN_USER_ID)
            /\ UNCHANGED <<conversation, users_table>>
       ELSE LET admin_user_id == int(strip(text))
                r == db_set_user_role(users_table, admin_user_id, ROLE_ADMIN, ok)
            IN  /\ users_table' = r.table
                /\ conversation' = [conversation EXCEPT ![user_id] = END]
                /\ last' = Handled("BotHandlers.receive_admin_user_id",
                                   <<user_id, text>>, END)
    /\ UNCHANGED <<store_state, keyboard, user_data, movies_table, movie_files,
                   download_tokens, dialogue>>

\* BotHandlers.add_movie, the entry point /add_movie
AddMovieCommand(user_id, ok) ==
    /\ Dispatch(user_id, END)
    /\ dialogue[user_id].number < MaxDialogues
    /\ LET role == db_get_user_role(users_table, user_id, ok)
       IN  /\ conversation' = [conversation EXCEPT ![user_id] = bot_add_movie(role)]
           /\ dialogue' = Begun(user_id, "add_movie", role)
           /\ last' = Handled("BotHandlers.add_movie", <<user_id>>,
                              bot_add_movie(role))
    /\ UNCHANGED <<store_state, users_table, keyboard, user_data, movies_table,
                   movie_files, download_tokens>>

\* BotHandlers.receive_movie_title, the handler of ADDING_MOVIE_TITLE
ReceiveMovieTitle(user_id, text) ==
    /\ Dispatch(user_id, ADDING_MOVIE_TITLE)
    /\ LET title == strip(text)
       IN  /\ user_data' = [user_data EXCEPT ![user_id] =
                               [movie_title |-> title] @@ @]
           /\ dialogue' = [dialogue EXCEPT ![user_id].title = title]
    /\ keyboard' = [keyboard EXCEPT ![user_id] = UploadTypeButtons]
    /\ conversation' = [conversation EXCEPT ![user_id] = SELECTING_UPLOAD_TYPE]
    /\ last' = Handled("BotHandlers.receive_movie_title", <<user_id, text>>,
                       SELECTING_UPLOAD_TYPE)
    /\ UNCHANGED <<store_state, users_table, movies_table, movie_files,
                   download_tokens>>

\* BotHandlers.handle_upload_type_selection, the handler of
\* SELECTING_UPLOAD_TYPE for the buttons of receive_movie_title
HandleUploadTypeSelection(user_id, upload_type) ==
    /\ Dispatch(user_id, SELECTING_UPLOAD_TYPE)
    /\ upload_type \in keyboard[user_id]
    /\ IF upload_type = "upload_single"
       THEN /\ user_data' = [user_data EXCEPT ![user_id] =
                                [upload_type |-> upload_type,
                                 movie_type |-> "single",
                                 uploaded_qualities |-> <<>>] @@ @]
            /\ keyboard' = [keyboard EXCEPT ![user_id] =
                               QualityButtons(all_qualities)]
            /\ conversation' = [conversation EXCEPT ![user_id] = SELECTING_QUALITY]
            /\ last' = Handled("BotHandlers.handle_upload_type_selection",
                               <<user_id, upload_type>>, SELECTING_QUALITY)
       ELSE /\ user_data' = [user_data EXCEPT ![user_id] =
                                [upload_type |-> upload_type,
                                 movie_type |-> "series",
                                 episode_count |-> 0] @@ @]
            /\ keyboard' = [keyboard EXCEPT ![user_id] = {}]
            /\ conversation' = [conversation EXCEPT ![user_id] = UPLOADING_EPISODE]
            /\ last' = Handled("BotHandlers.handle_upload_type_selection",
                               <<user_id, upload_type>>, UPLOADING_EPISODE)
    /\ UNCHANGED <<store_state, users_table, movies_table, movie_files,
                   download_tokens, dialogue>>

\* BotHandlers.handle_quality_selection, the handler of SELECTING_QUALITY for
\* the quality buttons
HandleQualitySelection(user_id, data) ==
    /\ Dispatch(user_id, SELECTING_QUALITY)
    /\ data \in keyboard[user_id]
    /\ data # "no_more_qualities"
    /\ user_data' = [user_data EXCEPT ![user_id] =
                        [selected_quality |-> QualityOf(data)] @@ @]
    \* query.edit_message_text puts the request for the file in the place of
    \* the message with the buttons
    /\ keyboard' = [keyboard EXCEPT ![user_id] = {}]
    /\ conversation' = [conversation EXCEPT ![user_id] = UPLOADING_FILE]
    /\ last' = Handled("BotHandlers.handle_quality_selection", <<user_id, data>>,
                       UPLOADING_FILE)
    /\ UNCHANGED <<store_state, users_table, movies_table, movie_files,
                   download_tokens, dialogue>>

\* BotHandlers.receive_movie_file, the handler of UPLOADING_FILE; document is
\* the file_id of the document of the message, or None; create_ok and add_ok
\* are whether the inserts of create_movie and add_movie_file succeed, and
\* failed holds the qualities whose create_download_token raises
ReceiveMovieFile(user_id, document, create_ok, add_ok, failed) ==
    /\ Dispatch(user_id, UPLOADING_FILE)
    /\ IF document = None
       THEN /\ last' = Handled("BotHandlers.receive_movie_file",
                               <<user_id, document>>, UPLOADING_FILE)
            /\ UNCHANGED <<conversation, keyboard, user_data, movies_table,
                           movie_files, download_tokens, dialogue>>
       ELSE LET data == user_data[user_id]
                create == "movie_id" \notin DOMAIN data
                c == db_create_movie(movies_table, data.movie_title, "single",
                                     user_id, create_ok)
            IN  IF create /\ ~c.created
                THEN /\ conversation' = [conversation EXCEPT ![user_id] = END]
                     /\ last' = Handled("BotHandlers.receive_movie_file",
                                        <<user_id, document>>, END)
                     /\ UNCHANGED <<keyboard, user_data, movies_table,
                                    movie_files, download_tokens, dialogue>>
                ELSE LET movie_id == IF create THEN c.ret ELSE data.movie_id
                         quality == data.selected_quality
                         f == db_add_movie_file(movie_files, movie_id, quality,
                                                document, add_ok)
                         uploaded_qualities ==
                             Append(Get(data, "uploaded_qualities", <<>>), quality)
                         data2 == [movie_id |-> movie_id,
                                   uploaded_qualities |-> uploaded_qualities]
                                      @@ data
                         remaining == remaining_qualities(uploaded_qualities)
                         g == generate_single_movie_links(data2, download_tokens,
                                                          failed)
                     IN  /\ movies_table' = IF create THEN c.table ELSE movies_table
                         /\ movie_files' = f.rows
                         /\ user_data' = [user_data EXCEPT ![user_id] = data2]
                         /\ dialogue' = [dialogue EXCEPT
                                ![user_id].created =
                                    IF create THEN Append(@, movie_id) ELSE @,
                                ![user_id].files = Append(@, quality)]
                         /\ IF remaining # <<>>
                            THEN /\ keyboard' = [keyboard EXCEPT ![user_id] =
                                        QualityButtons(remaining)
                                            \cup {"no_more_qualities"}]
                                 /\ conversation' = [conversation EXCEPT
                                        ![user_id] = SELECTING_QUALITY]
                                 /\ last' = Handled("BotHandlers.receive_movie_file",
                                        <<user_id, document>>, SELECTING_QUALITY)
                                 /\ UNCHANGED download_tokens
                            ELSE /\ download_tokens' = g.rows
                                 /\ keyboard' = [keyboard EXCEPT ![user_id] = {}]
                                 /\ conversation' = [conversation EXCEPT
                                        ![user_id] = END]
                                 /\ last' = HandledWithLinks(
                                        "BotHandlers.receive_movie_file",
                                        <<user_id, document>>, END, g.message)
    /\ UNCHANGED <<store_state, users_table>>

\* BotHandlers.handle_no_more_qualities, the handler of SELECTING_QUALITY for
\* the button "Finish Upload"
HandleNoMoreQualities(user_id, failed) ==
    /\ Dispatch(user_id, SELECTING_QUALITY)
    /\ "no_more_qualities" \in keyboard[user_id]
    /\ LET g == generate_single_movie_links(user_data[user_id], download_tokens,
                                            failed)
       IN  /\ download_tokens' = g.rows
           /\ last' = HandledWithLinks("BotHandlers.handle_no_more_qualities",
                                       <<user_id>>, END, g.message)
    /\ keyboard' = [keyboard EXCEPT ![user_id] = {}]
    /\ conversation' = [conversation EXCEPT ![user_id] = END]
    /\ UNCHANGED <<store_state, users_table, user_data, movies_table,
                   movie_files, dialogue>>

GetPendingRequestsCount ==
    IF KeyError(load_json(requests_file), "requests")
    THEN /\ last' = Raise("get_total_pending_requests_count", <<>>, "KeyError")
         /\ UNCHANGED <<movies_file, requests_file, users_file, admins_file,
                        channels_file, users_table, now, issued, other_state>>
    ELSE /\ last' = Call("get_total_pending_requests_count", <<>>,
                         get_total_pending_requests_count(requests_file))
         /\ UNCHANGED <<movies_file, requests_file, users_file, admins_file,
                        channels_file, users_table, now, issued, other_state>>

GetPendingRequests(limit, offset) ==
    \* requests["requests"] of the document load_json made of an unreadable file
    IF KeyError(load_json(requests_file), "requests")
    THEN /\ last' = Raise("get_pending_requests", <<limit, offset>>, "KeyError")
         /\ UNCHANGED <<movies_file, requests_file, users_file, admins_file,
                        channels_file, users_table, now, issued, other_state>>
    ELSE /\ last' = Call("get_pending_requests", <<limit, offset>>,
                         get_pending_requests(requests_file, users_file, limit, offset))
         /\ UNCHANGED <<movies_file, requests_file, users_file, admins_file,
                        channels_file, users_table, now, issued, other_state>>

UpsertUserSeen(user_id, first_name, username) ==
    /\ now < MaxClock
    /\ LET r == add_user_if_not_exists(users_file, user_id, first_name, username, now)
       IN  /\ users_file' = r.file
           /\ last' = Call("add_user_if_not_exists",
                           <<user_id, first_name, username>>, r.ret)
           \* datetime.now() is read only when the user is created
           /\ now' = IF r.ret THEN now + 1 ELSE now
    /\ UNCHANGED <<movies_file, requests_file, admins_file, channels_file,
                   users_table, issued, other_state>>

GetUserRole(user_id) ==
    /\ last' = Call("get_user_role", <<user_id>>, get_user_role(admins_file, user_id))
    /\ UNCHANGED <<movies_file, requests_file, users_file, admins_file,
                   channels_file, users_table, now, issued, other_state>>

AddAdmin(admin_id, short_name, first_name, username) ==
    /\ now < MaxClock
    /\ LET r == add_admin(admins_file, admin_id, short_name, first_name, username, now)
       IN  /\ admins_file' = r.file
           /\ last' = Call("add_admin",
                           <<admin_id, short_name, first_name, username>>, r.ret)
           \* datetime.now() is read only when the admin is created
           /\ now' = IF r.ret THEN now + 1 ELSE now
    /\ UNCHANGED <<movies_file, requests_file, users_file, channels_file,
                   users_table, issued, other_state>>

RemoveAdmin(identifier) ==
    /\ LET r == remove_admin(admins_file, identifier)
       IN  /\ admins_file' = r.file
           /\ last' = Call("remove_admin", <<identifier>>, r.ret)
    /\ UNCHANGED <<movies_file, requests_file, users_file, channels_file,
                   users_table, now, issued, other_state>>

AddChannel(channel_id, channel_name, short_name) ==
    /\ now < MaxClock
    /\ LET r == add_channel(channels_file, channel_id, channel_name, short_name, now)
       IN  /\ channels_file' = r.file
           /\ last' = Call("add_channel",
                           <<channel_id, channel_name, short_name>>, r.ret)
           /\ now' = IF r.ret THEN now + 1 ELSE now
    /\ UNCHANGED <<movies_file, requests_file, users_file, admins_file,
                   users_table, issued, other_state>>

RemoveChannel(identifier) ==
    /\ LET r == remove_channel(channels_file, identifier)
       IN  /\ channels_file' = r.file
           /\ last' = Call("remove_channel", <<identifier>>, r.ret)
    /\ UNCHANGED <<movies_file, requests_file, users_file, admins_file,
                   users_table, now, issued, other_state>>

DbGetUserRole(user_id, ok) ==
    /\ last' = Call("DatabaseManager.get_user_role", <<user_id, ok>>,
                    db_get_user_role(users_table, user_id, ok))
    /\ UNCHANGED <<movies_file, requests_file, users_file, admins_file,
                   channels_file, users_table, now, issued, other_state>>

DbSetUserRole(user_id, role, ok) ==
    /\ LET r == db_set_user_role(users_table, user_id, role, ok)
       IN  /\ users_table' = r.table
           /\ last' = Call("DatabaseManager.set_user_role", <<user_id, role, ok>>, r.ret)
    /\ UNCHANGED <<movies_file, requests_file, users_file, admins_file,
                   channels_file, now, issued, other_state>>

DbRemoveUserRole(user_id, ok) ==
    /\ LET r == db_remove_user_role(users_table, user_id, ok)
       IN  /\ users_table' = r.table
           /\ last' = Call("DatabaseManager.remove_user_role", <<user_id, ok>>, r.ret)
    /\ UNCHANGED <<movies_file, requests_file, users_file, admins_file,
                   channels_file, now, issued, other_state>>
-----------------------------------------------------------------------------
(* The inputs the operations are called with.                              *)

\* movie titles: "B", "b", "Ba"
Titles == {<<66>>, <<98>>, <<66, 97>>}

\* category names of config.BROWSE_CATEGORIES, and the queries made with them
Categories == {"Action", "Comedy"}
QueryCategories == Categories \cup {ALL_CATEGORY}

\* movie data of every title, and without a title
TitledMovies ==
    [title : Titles, categories : {<<"Action">>}] \cup [categories : {<<"Action">>}]

\* movie data of several category lists, and without one
TaggedMovies ==
    [title : {<<98>>},
     categories : {<<"Comedy">>, <<"Action", "Action">>, <<"Comedy", "Action">>}]
        \cup [title : {<<98>>}]

MovieIds == 1..MaxId
RequestIds == 1..MaxId
\* limits and offsets of the paginated queries; Python slices take negative
\* indices, too
Limits == (-1)..MaxLimit
Offsets == (-1)..MaxLimit
\* user id and movie name of a request
RequestInputs == {<<1, "Inception">>, <<2, "Dune">>}
Statuses == {"pending", "fulfilled"}

\* movie data of an uploader, and movie data that names a download count
MovieData ==
    {[title |-> <<98>>, categories |-> <<"Action">>, added_by |-> 1],
     [title |-> <<66>>, download_count |-> 5]}
\* search queries: "", "b", "BA", "c"
Queries == {<<>>, <<98>>, <<66, 65>>, <<99>>}
\* first letters: "B", "b", "a", and a text that is not one letter
Letters == {<<66>>, <<98>>, <<97>>, <<66, 97>>}
\* the limits of the searches
SearchLimits == (-1)..MaxLimit
\* first name and username of a user
UserProfiles == {<<"Ann", None>>, <<"Ann", "bob">>, <<"Bob", "bob">>}

\* short name, first name, username of an admin
AdminProfiles == {<<"x", "Ann", None>>, <<"2", "Bob", "bob">>}
AdminIdentifiers == {Str(id) : id \in UserIds} \cup {"x"}

ChannelIds == {"@a", "@b"}
\* channel name, short name of a channel
ChannelProfiles == {<<"Alpha", "s">>, <<"Beta", "@b">>}
ChannelIdentifiers == ChannelIds \cup {"s"}

-----------------------------------------------------------------------------
(* Specifications.                                                         *)

\* every operation of the store and of the users table
Next ==
    \/ \E d \in TitledMovies \cup TaggedMovies : AddMovie(d)
    \/ \E id \in MovieIds : DeleteMovie(id)
    \/ \E id \in MovieIds : IncrementDownloadCount(id)
    \/ \E id \in MovieIds : GetMovie(id)
    \/ \E q \in Queries, l \in SearchLimits : SearchMovies(q, l)
    \/ \E c \in Letters, l \in SearchLimits : GetMoviesByFirstLetter(c, l)
    \/ \E u \in UserIds, l \in SearchLimits : GetMoviesByUploader(u, l)
    \/ GetPendingRequestsCount
    \/ \E c \in QueryCategories, l \in Limits, o \in Offsets : GetMoviesByCategory(c, l, o)
    \/ \E q \in RequestInputs : AddMovieRequest(q[1], q[2])
    \/ \E id \in RequestIds, st \in Statuses : UpdateRequestStatus(id, st)
    \/ \E l \in Limits, o \in Offsets : GetPendingRequests(l, o)
    \/ \E u \in UserIds, p \in AdminProfiles : UpsertUserSeen(u, p[2], p[3])
    \/ \E u \in UserIds : GetUserRole(u)
    \/ \E u \in UserIds, p \in AdminProfiles : AddAdmin(u, p[1], p[2], p[3])
    \/ \E i \in AdminIdentifiers : RemoveAdmin(i)
    \/ \E c \in ChannelIds, p \in ChannelProfiles : AddChannel(c, p[1], p[2])
    \/ \E i \in ChannelIdentifiers : RemoveChannel(i)
    \/ \E u \in UserIds, ok \in BOOLEAN : DbGetUserRole(u, ok)
    \/ \E u \in UserIds, ok \in BOOLEAN : DbSetUserRole(u, "admin", ok)
    \/ \E u \in UserIds, ok \in BOOLEAN : DbRemoveUserRole(u, ok)
    \/ InitializeDatabase
    \/ \E c \in {NoFile, InvalidJSON} :
           \/ MoviesFileUnreadable(c) \/ RequestsFileUnreadable(c)
           \/ UsersFileUnreadable(c) \/ AdminsFileUnreadable(c)
           \/ ChannelsFileUnreadable(c) \/ TokensFileUnreadable(c)
    \/ \E d \in TitledMovies, e \in {"PermissionError", "TypeError"} :
           AddMovieSaveRaises(d, e)
    \/ \E id \in MovieIds, e \in {"PermissionError", "TypeError"} :
           DeleteMovieSaveRaises(id, e)
    \/ \E u \in UserIds, p \in AdminProfiles,
          e \in {"PermissionError", "TypeError"} :
           UpsertUserSeenSaveRaises(u, p[2], p[3], e)
    \/ \E u \in UserIds : UserExists(u)
    \/ \E u \in UserIds : GetAdminInfo(u)
    \/ ListAdmins
    \/ \E c \in ChannelIds : GetChannelInfo(c)
    \/ ListChannels
    \/ ChangeReturned
    \/ \E c \in {"a", "b"}, d \in TitledMovies : AddMovieLoad(c, d)
    \/ \E c \in {"a", "b"} : AddMovieSave(c)
    \/ \E c \in {"a", "b"}, id \in MovieIds : IncrementDownloadCountLoad(c, id)
    \/ \E c \in {"a", "b"} : IncrementDownloadCountSave(c)
    \/ \E u \in UserIds, ok \in BOOLEAN : AddAdminCommand(u, ok)
    \/ \E u \in UserIds, text \in {<<"1">>, <<"a">>}, ok \in BOOLEAN :
           ReceiveAdminUserId(u, text, ok)
    \/ \E u \in UserIds, ok \in BOOLEAN : AddMovieCommand(u, ok)
    \/ \E u \in UserIds, text \in {<<"A">>, <<" ", "B">>} :
           ReceiveMovieTitle(u, text)
    \/ \E u \in UserIds, t \in {"upload_single", "upload_series"} :
           HandleUploadTypeSelection(u, t)
    \/ \E u \in UserIds, q \in {"quality_480p", "quality_720p", "quality_1080p"} :
           HandleQualitySelection(u, q)
    \/ \E u \in UserIds, d \in {None, "f1"}, create_ok, add_ok \in BOOLEAN,
          failed \in SUBSET {"480p", "720p", "1080p"} :
           ReceiveMovieFile(u, d, create_ok, add_ok, failed)
    \/ \E u \in UserIds, failed \in SUBSET {"480p", "720p", "1080p"} :
           HandleNoMoreQualities(u, failed)

Spec == Init /\ [][Next]_vars

\* the operations that assign or could disturb the ids of movies and requests
NextIds ==
    \/ \E d \in {[title |-> <<98>>, categories |-> <<"Action">>]} : AddMovie(d)
    \/ \E id \in MovieIds : DeleteMovie(id)
    \/ \E id \in {1, 2} : IncrementDownloadCount(id)
    \/ \E q \in {<<2, "Dune">>} : AddMovieRequest(q[1], q[2])
    \/ \E id \in RequestIds, st \in Statuses : UpdateRequestStatus(id, st)

SpecIds == Init /\ [][NextIds]_vars

\* the movies, one by one, beside the other collections
NextMovies ==
    \/ \E d \in MovieData : AddMovie(d)
    \/ \E id \in MovieIds : GetMovie(id)
    \/ \E id \in MovieIds : DeleteMovie(id)
    \/ \E q \in {<<2, "Dune">>} : AddMovieRequest(q[1], q[2])
    \/ \E u \in {1} : UpsertUserSeen(u, "Ann", None)
    \/ \E u \in {1} : AddAdmin(u, "x", "Ann", None)
    \/ \E c \in {"@a"} : AddChannel(c, "Alpha", "s")

SpecMovies == Init /\ [][NextMovies]_vars

\* a catalog of movies of several titles, and its searches
NextSearch ==
    \/ \E d \in TitledMovies : AddMovie(d)
    \/ \E id \in MovieIds : DeleteMovie(id)
    \/ \E q \in Queries, l \in SearchLimits : SearchMovies(q, l)
    \/ \E c \in Letters, l \in SearchLimits : GetMoviesByFirstLetter(c, l)

SpecSearch == Init /\ [][NextSearch]_vars

\* the movies of the uploaders, and the query by uploader
NextUploads ==
    \/ \E d \in [title : {<<98>>}, added_by : {1, 2}] : AddMovie(d)
    \/ \E id \in MovieIds : DeleteMovie(id)
    \/ \E u \in UserIds, l \in SearchLimits : GetMoviesByUploader(u, l)

SpecUploads == Init /\ [][NextUploads]_vars

\* the movies and the requests, with files that become unreadable
NextStorage ==
    \/ \E c \in {NoFile, InvalidJSON} : MoviesFileUnreadable(c)
    \/ \E c \in {NoFile, InvalidJSON} : RequestsFileUnreadable(c)
    \/ \E d \in {[title |-> <<98>>, categories |-> <<"Action">>]} : AddMovie(d)
    \/ \E id \in {1} : GetMovie(id)
    \/ \E id \in {1} : DeleteMovie(id)
    \/ \E id \in {1} : IncrementDownloadCount(id)
    \/ \E q \in {<<98>>} : SearchMovies(q, MaxLimit)
    \/ \E c \in {<<98>>} : GetMoviesByFirstLetter(c, MaxLimit)
    \/ \E c \in {"Action"} : GetMoviesByCategory(c, MaxLimit, 0)
    \/ \E q \in {<<2, "Dune">>} : AddMovieRequest(q[1], q[2])
    \/ \E id \in {1} : UpdateRequestStatus(id, "fulfilled")
    \/ \E l \in {MaxLimit} : GetPendingRequests(l, 0)
    \/ GetPendingRequestsCount

SpecStorage == Init /\ [][NextStorage]_vars

\* the users
NextUsers ==
    \/ \E u \in UserIds, p \in UserProfiles : UpsertUserSeen(u, p[1], p[2])

SpecUsers == Init /\ [][NextUsers]_vars

\* a catalog of movies of several titles, and its category query
NextTitles ==
    \/ \E d \in TitledMovies : AddMovie(d)
    \/ \E id \in MovieIds : DeleteMovie(id)
    \/ \E c \in {"Action"}, l \in Limits, o \in Offsets : GetMoviesByCategory(c, l, o)

SpecTitles == Init /\ [][NextTitles]_vars

\* a catalog of movies of several category lists, and its category query
\* from the first movie on
NextTags ==
    \/ \E d \in TaggedMovies : AddMovie(d)
    \/ \E id \in MovieIds : DeleteMovie(id)
    \/ \E c \in QueryCategories, l \in Limits : GetMoviesByCategory(c, l, 0)

SpecTags == Init /\ [][NextTags]_vars

\* the requests and the query of the pending ones
NextRequests ==
    \/ \E u \in {1} : UpsertUserSeen(u, "Ann", None)
    \/ \E q \in RequestInputs : AddMovieRequest(q[1], q[2])
    \/ \E id \in RequestIds, st \in Statuses : UpdateRequestStatus(id, st)
    \/ \E l \in Limits, o \in Offsets : GetPendingRequests(l, o)
    \/ GetPendingRequestsCount

SpecRequests == Init /\ [][NextRequests]_vars

\* the admins and the channels
NextAdmins ==
    \/ \E u \in UserIds, p \in AdminProfiles : AddAdmin(u, p[1], p[2], p[3])
    \/ \E i \in AdminIdentifiers : RemoveAdmin(i)
    \/ \E c \in ChannelIds, p \in ChannelProfiles : AddChannel(c, p[1], p[2])
    \/ \E i \in ChannelIdentifiers : RemoveChannel(i)

SpecAdmins == Init /\ [][NextAdmins]_vars

\* the roles: the admin collection of the store and the hosted users table
NextRoles ==
    \/ \E u \in UserIds : AddAdmin(u, "x", "Ann", None)
    \/ \E i \in AdminIdentifiers : RemoveAdmin(i)
    \/ \E u \in UserIds : GetUserRole(u)
    \/ \E u \in UserIds, ok \in BOOLEAN : DbGetUserRole(u, ok)
    \/ \E u \in UserIds, ok \in BOOLEAN : DbSetUserRole(u, "admin", ok)
    \/ \E u \in UserIds, ok \in BOOLEAN : DbRemoveUserRole(u, ok)

SpecRoles == Init /\ [][NextRoles]_vars
-----------------------------------------------------------------------------
(* Claims.                                                                 *)

\* initialization between store operations, over files that get lost or
\* damaged
NextInit ==
    \/ InitializeDatabase
    \/ \E c \in {NoFile, InvalidJSON} : MoviesFileUnreadable(c)
    \/ \E c \in {NoFile} : RequestsFileUnreadable(c)
    \/ \E c \in {NoFile} : UsersFileUnreadable(c)
    \/ \E c \in {NoFile} : AdminsFileUnreadable(c)
    \/ \E c \in {NoFile} : ChannelsFileUnreadable(c)
    \/ \E d \in {[title |-> <<98>>, categories |-> <<"Action">>]} : AddMovie(d)
    \/ \E q \in {<<2, "Dune">>} : AddMovieRequest(q[1], q[2])
    \/ \E u \in {1} : UpsertUserSeen(u, "Ann", None)
    \/ \E a \in {1} : AddAdmin(a, "x", "Ann", None)
    \/ \E c \in {"@a"} : AddChannel(c, "Alpha", "s")

SpecInit == Init /\ [][NextInit]_vars

\* the inputs of the write operations whose save step may fail
SavedMovies == {[title |-> <<98>>, categories |-> <<"Action">>]}
SavedProfiles == {<<"Ann", None>>, <<"Bob", "bob">>}

\* write operations whose save step may fail
NextSaves ==
    \/ \E d \in SavedMovies : AddMovie(d)
    \/ \E d \in SavedMovies, e \in SaveExceptions : AddMovieSaveRaises(d, e)
    \/ \E id \in {1, 2} : DeleteMovie(id)
    \/ \E id \in {1, 2}, e \in SaveExceptions : DeleteMovieSaveRaises(id, e)
    \/ \E id \in {1, 2} : GetMovie(id)
    \/ \E u \in {1}, p \in SavedProfiles : UpsertUserSeen(u, p[1], p[2])
    \/ \E u \in {1}, p \in SavedProfiles, e \in SaveExceptions :
           UpsertUserSeenSaveRaises(u, p[1], p[2], e)

SpecSaves == Init /\ [][NextSaves]_vars

\* the reads of the store, between writes and the changes callers make to
\* what they were given
ReadMovies == {[title |-> <<98>>, categories |-> <<"Action">>]}

NextReads ==
    \/ \E d \in ReadMovies : AddMovie(d)
    \/ \E q \in {<<1, "Dune">>} : AddMovieRequest(q[1], q[2])
    \/ \E u \in {1} : UpsertUserSeen(u, "Ann", None)
    \/ \E a \in {1} : AddAdmin(a, "x", "Ann", None)
    \/ \E c \in {"@a"} : AddChannel(c, "Alpha", "s")
    \/ \E u \in {1} : UserExists(u)
    \/ \E u \in {1} : GetUserRole(u)
    \/ \E a \in {1} : GetAdminInfo(a)
    \/ ListAdmins
    \/ \E id \in {1} : GetMovie(id)
    \/ \E q \in {<<98>>} : SearchMovies(q, MaxLimit)
    \/ \E c \in {<<98>>} : GetMoviesByFirstLetter(c, MaxLimit)
    \/ \E c \in {"Action"} : GetMoviesByCategory(c, MaxLimit, 0)
    \/ \E c \in {"@a"} : GetChannelInfo(c)
    \/ ListChannels
    \/ \E l \in {MaxLimit} : GetPendingRequests(l, 0)
    \/ GetPendingRequestsCount
    \/ ChangeReturned

SpecReads == Init /\ [][NextReads]_vars

\* every operation that writes the users or the requests, among operations
\* that remove records of other collections
NextKeeps ==
    \/ InitializeDatabase
    \/ \E u \in {1, 2}, p \in {<<"Ann", None>>, <<"Bob", "bob">>} :
           UpsertUserSeen(u, p[1], p[2])
    \/ \E u \in {1, 2} : UserExists(u)
    \/ \E q \in RequestInputs : AddMovieRequest(q[1], q[2])
    \/ \E id \in RequestIds, st \in Statuses : UpdateRequestStatus(id, st)
    \/ \E a \in {1} : AddAdmin(a, "x", "Ann", None)
    \/ \E i \in {"1", "x"} : RemoveAdmin(i)

SpecKeeps == Init /\ [][NextKeeps]_vars

\* two callers whose write operations run between each other's load and save
NextCallers ==
    \/ \E c \in Callers, d \in ReadMovies : AddMovieLoad(c, d)
    \/ \E c \in Callers : AddMovieSave(c)
    \/ \E c \in Callers, id \in {1} : IncrementDownloadCountLoad(c, id)
    \/ \E c \in Callers : IncrementDownloadCountSave(c)

SpecCallers == Init /\ [][NextCallers]_vars

\* the texts sent as the id of the new admin: "1", " 2 ", "a", "1a", ""
AdminIdTexts == {<<"1">>, <<" ", "2", " ">>, <<"a">>, <<"1", "a">>, <<>>}

\* the dialogue of /add_admin, among demotions
NextPromote ==
    \/ \E u \in UserIds, ok \in BOOLEAN : AddAdminCommand(u, ok)
    \/ \E u \in UserIds, text \in AdminIdTexts, ok \in BOOLEAN :
           ReceiveAdminUserId(u, text, ok)
    \/ \E u \in {1, 2}, ok \in BOOLEAN : DbRemoveUserRole(u, ok)

SpecPromote == Init /\ [][NextPromote]_vars

\* the texts sent as the title: "A", " B"; the documents of a message
TitleTexts == {<<"A">>, <<" ", "B">>}
Documents == {None, "f1"}
Uploaders == {OWNER_USER_ID}
Qualities == {all_qualities[i] : i \in 1..Len(all_qualities)}
\* the sets of qualities whose create_download_token raises
FailedTokens == {{}, {"480p"}}

\* the dialogues of /add_movie of the owner
NextDialogue ==
    \/ \E u \in Uploaders, ok \in BOOLEAN : AddMovieCommand(u, ok)
    \/ \E u \in Uploaders, text \in TitleTexts : ReceiveMovieTitle(u, text)
    \/ \E u \in Uploaders, t \in UploadTypeButtons : HandleUploadTypeSelection(u, t)
    \/ \E u \in Uploaders, q \in Qualities :
           HandleQualitySelection(u, QualityButton(q))
    \/ \E u \in Uploaders, d \in Documents, create_ok \in BOOLEAN,
          failed \in FailedTokens :
           ReceiveMovieFile(u, d, create_ok, TRUE, failed)
    \/ \E u \in Uploaders, failed \in FailedTokens :
           HandleNoMoreQualities(u, failed)

SpecDialogue == Init /\ [][NextDialogue]_vars

\* the dialogues of /add_movie of user 1 and of the owner, among promotions
\* and demotions of user 1
NextEntry ==
    \/ \E ok \in BOOLEAN : DbSetUserRole(1, ROLE_ADMIN, ok)
    \/ \E ok \in BOOLEAN : DbRemoveUserRole(1, ok)
    \/ \E u \in {1, OWNER_USER_ID}, ok \in BOOLEAN : AddMovieCommand(u, ok)
    \/ \E u \in {1, OWNER_USER_ID} : ReceiveMovieTitle(u, <<"A">>)
    \/ \E u \in {1, OWNER_USER_ID} : HandleUploadTypeSelection(u, "upload_single")
    \/ \E u \in {1, OWNER_USER_ID}, q \in {"480p"} :
           HandleQualitySelection(u, QualityButton(q))
    \/ \E u \in {1, OWNER_USER_ID}, create_ok \in BOOLEAN :
           ReceiveMovieFile(u, "f1", create_ok, TRUE, {})
    \/ \E u \in {1, OWNER_USER_ID} : HandleNoMoreQualities(u, {})

SpecEntry == Init /\ [][NextEntry]_vars

\* no element occurs twice in the sequence
Distinct(seq) == \A i, j \in 1..Len(seq) : seq[i] = seq[j] => i = j

\* the keys of the collection are the decimal forms of numbers below next_id
KeysBelow(d, next_id) == DictKeys(d) \subseteq {Str(n) : n \in 1..(next_id - 1)}

C1_KeysBelowNextId ==
    /\ KeysBelow(movies_file.movies, movies_file.next_id)
    /\ KeysBelow(requests_file.requests, requests_file.next_id)

C1_NextIdStep ==
    /\ movies_file'.next_id >= movies_file.next_id
    /\ requests_file'.next_id >= requests_file.next_id

\* C1: in every state reachable by AddMovie, DeleteMovie,
\* IncrementDownloadCount, AddMovieRequest and UpdateRequestStatus the next_id
\* counter of Movies and of Requests is strictly greater than every key of its
\* collection, and no operation decreases it.
C1_NextIdExceedsKeys == []C1_KeysBelowNextId /\ [][C1_NextIdStep]_vars

\* a movie has just been deleted while later ids are in use, and a request
\* has been added
C1_Witness ==
    /\ last.op = "delete_movie"
    /\ last.ret = TRUE
    /\ movies_file.movies # <<>>
    /\ movies_file.next_id >= 3
    /\ requests_file.requests # <<>>

\* C2: every id AddMovie (AddMovieRequest) returns differs from every id an
\* earlier call returned, deleted movies included, and right after the call
\* the counter of the collection is greater than the returned id.
C2_FreshIds ==
    /\ Distinct(issued.movies)
    /\ Distinct(issued.requests)
    /\ last.op = "add_movie" => movies_file.next_id > last.ret
    /\ last.op = "add_movie_request" => requests_file.next_id > last.ret

\* a movie has just been added after an earlier movie was added and deleted,
\* and two requests have been added
C2_Witness ==
    /\ last.op = "add_movie"
    /\ Len(issued.movies) >= 2
    /\ \E i \in 1..Len(issued.movies) :
           ~DictHas(movies_file.movies, Str(issued.movies[i]))
    /\ Len(issued.requests) >= 2

\* C3: GetUserRole of the owner identity is owner even when the identity is
\* among the admins; of any other identity it is admin exactly when the
\* identity is in the admin collection, and user otherwise.  The lookup of the
\* front end answers owner for the owner identity as well, and admin only for
\* an identity whose stored role is admin.
C3_RolePrecedence ==
    /\ last.op = "get_user_role" =>
           LET user_id == last.args[1]
           IN  /\ user_id = OWNER_ID => last.ret = "owner"
               /\ user_id # OWNER_ID =>
                      /\ last.ret \in {"admin", "user"}
                      /\ last.ret = "admin" <=> Str(user_id) \in DictKeys(admins_file)
    /\ last.op = "DatabaseManager.get_user_role" =>
           LET user_id == last.args[1]
               stored_admin == /\ user_id \in DOMAIN users_table
                               /\ users_table[user_id] = "admin"
           IN  /\ user_id = OWNER_USER_ID => last.ret = "owner"
               /\ user_id # OWNER_USER_ID =>
                      /\ last.ret \in {"admin", "user"}
                      /\ last.ret = "admin" => stored_admin
                      /\ last.args[2] => (last.ret = "admin" <=> stored_admin)

\* the role of the owner has just been asked while the owner is an admin too
C3_Witness ==
    /\ last.op = "get_user_role"
    /\ last.args[1] = OWNER_ID
    /\ DictHas(admins_file, Str(OWNER_ID))
    /\ \E u \in UserIds : u # OWNER_ID /\ DictHas(admins_file, Str(u))

\* the lowercased title of a movie, the empty text for a movie without title
LowercasedTitle(movie) == Lower(Get(movie, "title", <<>>))

SortedByLowercasedTitle(seq) ==
    \A i \in 1..(Len(seq) - 1) :
        ~StrLess(LowercasedTitle(seq[i + 1]), LowercasedTitle(seq[i]))

\* C4: whatever the store, the category, the limit and the offset, the list
\* GetMoviesByCategory returns is in ascending order of lowercased title.
C4_SortedByTitle ==
    last.op = "get_movies_by_category" => SortedByLowercasedTitle(last.ret)

\* a query has just returned two movies in another order than they were
\* added in, and than their titles as written would sort in
C4_Witness ==
    /\ last.op = "get_movies_by_category"
    /\ \E i \in 1..(Len(last.ret) - 1) :
           /\ last.ret[i].movie_id > last.ret[i + 1].movie_id
           /\ StrLess(Get(last.ret[i + 1], "title", <<>>),
                      Get(last.ret[i], "title", <<>>))

\* the movie carries the category tag, or every movie is asked for
HasTag(movie, category) ==
    \/ category = ALL_CATEGORY
    \/ \E i \in DOMAIN Get(movie, "categories", <<>>) : movie.categories[i] = category

\* the ids of the movies of the store that a category query is to select
TaggedIds(category) ==
    {movies_file.movies[i].v.movie_id :
        i \in {j \in 1..Len(movies_file.movies) :
                  HasTag(movies_file.movies[j].v, category)}}

\* the pages of a category query at offsets O, O + L, O + 2L, ... up to the
\* first empty page, concatenated
RECURSIVE Pages(_, _, _, _)
Pages(file, category, L, O) ==
    LET page == get_movies_by_category(file, category, L, O)
    IN  IF Len(page) = 0 THEN <<>>
        ELSE page \o Pages(file, category, L, O + L)

\* C5: for a fixed store, a category and a limit L >= 1, the pages of
\* GetMoviesByCategory at offsets 0, L, 2L, ... up to the first empty page
\* concatenate to the full sorted list of the matching movies, each matching
\* movie exactly once, movies of equal lowercased title included.
C5_PagesReconstruct ==
    \A category \in QueryCategories, L \in 1..MaxLimit :
        LET all == Pages(movies_file, category, L, 0)
        IN  /\ Len(all) = Cardinality(TaggedIds(category))
            /\ {all[i].movie_id : i \in 1..Len(all)} = TaggedIds(category)
            /\ SortedByLowercasedTitle(all)
            /\ all = get_movies_by_category(movies_file, category,
                                            Len(movies_file.movies), 0)

\* a later page has just been returned, not empty, from a store that holds two
\* matching movies whose titles differ and whose lowercased titles are equal
C5_Witness ==
    /\ last.op = "get_movies_by_category"
    /\ last.args[2] >= 1
    /\ last.args[3] = last.args[2]
    /\ Len(last.ret) >= 1
    /\ \E i, j \in 1..Len(movies_file.movies) :
           LET a == movies_file.movies[i].v
               b == movies_file.movies[j].v
           IN  /\ Get(a, "title", <<>>) # Get(b, "title", <<>>)
               /\ LowercasedTitle(a) = LowercasedTitle(b)

\* C6: GetMoviesByCategory with the "all" category selects every movie of the
\* store; with another category exactly the movies whose category list holds
\* that tag, each once even when the list repeats the tag.
C6_CategorySelection ==
    \A category \in QueryCategories :
        LET selected == get_movies_by_category(movies_file, category,
                                               Len(movies_file.movies), 0)
        IN  /\ {selected[i].movie_id : i \in 1..Len(selected)} = TaggedIds(category)
            /\ Len(selected) = Cardinality(TaggedIds(category))
            /\ category = ALL_CATEGORY => Len(selected) = Len(movies_file.movies)

\* an "Action" query over the whole store has just returned a movie whose
\* list repeats the tag, and left out a movie without the tag
C6_Witness ==
    /\ last.op = "get_movies_by_category"
    /\ last.args = <<"Action", Len(movies_file.movies), 0>>
    /\ \E i \in 1..Len(last.ret) : last.ret[i].categories = <<"Action", "Action">>
    /\ Len(last.ret) < Len(movies_file.movies)
\* C7: GetPendingRequests returns only requests whose status is pending, in
\* strictly descending order of request id.
C7_PendingNewestFirst ==
    last.op = "get_pending_requests" =>
        /\ \A i \in 1..Len(last.ret) :
               /\ last.ret[i].status = "pending"
               /\ DictHas(requests_file.requests, Str(last.ret[i].request_id))
               /\ DictGet(requests_file.requests,
                          Str(last.ret[i].request_id)).status = "pending"
        /\ \A i \in 1..(Len(last.ret) - 1) :
               last.ret[i].request_id > last.ret[i + 1].request_id

\* two pending requests have just been returned while another request is no
\* longer pending
C7_Witness ==
    /\ last.op = "get_pending_requests"
    /\ Len(last.ret) >= 2
    /\ \E i \in 1..Len(requests_file.requests) :
           requests_file.requests[i].v.status # "pending"

\* the collection without the record at position i
Without(d, i) == [j \in 1..(Len(d) - 1) |-> IF j < i THEN d[j] ELSE d[j + 1]]

\* the positions of the records with the short name
WithShortName(d, short_name) ==
    {i \in 1..Len(d) : "short_name" \in DOMAIN d[i].v /\ d[i].v.short_name = short_name}

\* what a removal by identifier is to do: before is the collection before
\* the call, after the collection after it, ret the result
RemovedByIdentifier(before, after, identifier, ret) ==
    IF \E i \in 1..Len(before) : before[i].k = identifier
    THEN /\ ret = TRUE
         /\ \E i \in 1..Len(before) :
                before[i].k = identifier /\ after = Without(before, i)
    ELSE IF WithShortName(before, identifier) # {}
    THEN /\ ret = TRUE
         /\ \E i \in WithShortName(before, identifier) :
                /\ \A j \in WithShortName(before, identifier) : i <= j
                /\ after = Without(before, i)
    ELSE /\ ret = FALSE
         /\ after = before

C8_RemoveStep ==
    /\ last'.op = "remove_admin" =>
           RemovedByIdentifier(admins_file, admins_file', last'.args[1], last'.ret)
    /\ last'.op = "remove_channel" =>
           RemovedByIdentifier(channels_file, channels_file', last'.args[1], last'.ret)

\* C8: RemoveAdmin(identifier) removes the record keyed by the identifier when
\* there is one, even if the short name of another admin equals the
\* identifier; only with no such key it removes the first record whose short
\* name is the identifier.  A call that returns true removes exactly that one
\* record and leaves the others as they are; a call that finds neither
\* returns false and leaves the collection as it is.  RemoveChannel likewise.
C8_RemoveByKeyThenShortName == [][C8_RemoveStep]_vars

\* an admin has just been removed by key while the short name of an admin who
\* stays is that key
C8_Witness ==
    /\ last.op = "remove_admin"
    /\ last.ret = TRUE
    /\ last.args[1] = "2"
    /\ WithShortName(admins_file, "2") # {}

\* exactly two records share the short name, and it is no key
TwoShare(d, short_name) ==
    /\ Cardinality(WithShortName(d, short_name)) = 2
    /\ \A i \in 1..Len(d) : d[i].k # short_name

\* the record with the short name that was added first, and the other one
AddedFirst(d, short_name) ==
    CHOOSE i \in WithShortName(d, short_name) :
        \A j \in WithShortName(d, short_name) : d[i].v.added_at <= d[j].v.added_at

AddedSecond(d, short_name) ==
    CHOOSE i \in WithShortName(d, short_name) : i # AddedFirst(d, short_name)

\* what C9 says of a removal from a collection in which two records share
\* the short name: again is the removal repeated, further repeated once more
RemovesOneByOne(before, after, ret, short_name, again, further) ==
    LET first == before[AddedFirst(before, short_name)].k
        second == before[AddedSecond(before, short_name)].k
    IN  /\ ret = TRUE
        /\ DictKeys(after) = DictKeys(before) \ {first}
        /\ again.ret = TRUE
        /\ DictKeys(again.file) = DictKeys(before) \ {first, second}
        /\ further.ret = FALSE
        /\ further.file = again.file

C9_RemoveStep ==
    /\ (last'.op = "remove_admin" /\ TwoShare(admins_file, last'.args[1])) =>
           LET again == remove_admin(admins_file', last'.args[1])
           IN  RemovesOneByOne(admins_file, admins_file', last'.ret, last'.args[1],
                               again, remove_admin(again.file, last'.args[1]))
    /\ (last'.op = "remove_channel" /\ TwoShare(channels_file, last'.args[1])) =>
           LET again == remove_channel(channels_file', last'.args[1])
           IN  RemovesOneByOne(channels_file, channels_file', last'.ret, last'.args[1],
                               again, remove_channel(again.file, last'.args[1]))

\* C9: when two admin (channel) records share a short name that is no key,
\* RemoveAdmin (RemoveChannel) by that short name removes exactly the one
\* added first and returns true; a second call removes the other and returns
\* true; a further call returns false.
C9_SharedShortName == [][C9_RemoveStep]_vars

\* an admin has just been removed by a short name that one more admin, who
\* stays, carries
C9_Witness ==
    /\ last.op = "remove_admin"
    /\ last.ret = TRUE
    /\ last.args[1] = "x"
    /\ Cardinality(WithShortName(admins_file, "x")) = 1
    /\ Len(admins_file) >= 2

\* what an addition under a key is to do: supplied is the fields the call
\* gives the new record
AddedUnlessPresent(before, after, key, ret, supplied) ==
    IF \E i \in 1..Len(before) : before[i].k = key
    THEN /\ ret = FALSE
         /\ after = before
    ELSE /\ ret = TRUE
         /\ DictKeys(after) = DictKeys(before) \cup {key}
         /\ \A i \in 1..Len(before) : after[i] = before[i]
         /\ \A f \in DOMAIN supplied : DictGet(after, key)[f] = supplied[f]

C10_AddStep ==
    /\ last'.op = "add_admin" =>
           AddedUnlessPresent(admins_file, admins_file', Str(last'.args[1]), last'.ret,
               [user_id |-> last'.args[1], short_name |-> last'.args[2],
                first_name |-> last'.args[3], username |-> last'.args[4],
                added_at |-> now])
    /\ last'.op = "add_channel" =>
           AddedUnlessPresent(channels_file, channels_file', last'.args[1], last'.ret,
               [channel_id |-> last'.args[1], channel_name |-> last'.args[2],
                short_name |-> last'.args[3], added_at |-> now])

\* C10: AddAdmin with an identity that is present returns false and leaves
\* the record (short name, display name, handle, added timestamp) and every
\* other record as they are; AddChannel with a present identifier likewise.
\* With an absent identifier each returns true, and then the record exists
\* with the supplied fields.
C10_AddOnlyIfAbsent == [][C10_AddStep]_vars

\* AddAdmin has just failed for an admin who is present, called with another
\* short name and display name than the record has
C10_Witness ==
    /\ last.op = "add_admin"
    /\ last.ret = FALSE
    /\ DictGet(admins_file, Str(last.args[1])).short_name # last.args[2]
    /\ DictGet(admins_file, Str(last.args[1])).first_name # last.args[3]
    /\ DictGet(admins_file, Str(last.args[1])).added_at < now - 1

-----------------------------------------------------------------------------
\* The variables, with the operation and the arguments of the last call in
\* front: a step leaves calls unchanged exactly when it leaves vars unchanged.
calls == <<last.op, last.args, vars>>

\* the fields add_movie stamps
StampedFields == {"movie_id", "added_at", "download_count"}

\* C11: get_movie_details(id) right after add_movie(data) returned id gives a
\* record that holds every field of data with its value, and the three stamped
\* fields: the returned id, the time of the call and the download count 0.
C11_RoundTripStep ==
    (/\ last.op = "add_movie" /\ ~Raised(last)
     /\ last'.op = "get_movie_details" /\ last'.args = <<last.ret>>)
        => /\ ~Raised(last')
           /\ DictHas(movies_file.movies, Str(last.ret))
           /\ LET data == last.args[1]
                  movie == last'.ret
              IN  /\ DOMAIN movie = DOMAIN data \cup StampedFields
                  /\ \A f \in DOMAIN data \ StampedFields : movie[f] = data[f]
                  /\ movie.movie_id = last.ret
                  /\ movie.added_at = now - 1
                  /\ movie.download_count = 0

-----------------------------------------------------------------------------
\* the entries of d without the one of the key, in their order
OtherEntries(d, key) == SelectSeq(d, LAMBDA e : e.k # key)

\* C12: delete_movie(id) returns True exactly when the movie is there.  After
\* True the movie is gone and a repeated delete_movie(id) returns False.  In
\* both cases the other movies, next_id and the other four collections are
\* as before.
C12_DeleteStep ==
    (last'.op = "delete_movie" /\ ~Raised(last'))
        => LET movie_id == last'.args[1]
               present == DictHas(movies_file.movies, Str(movie_id))
           IN  /\ last'.ret = present
               /\ ~DictHas(movies_file'.movies, Str(movie_id))
               /\ present => /\ get_movie_details(movies_file', movie_id) = None
                              /\ delete_movie(movies_file', movie_id).ret = FALSE
               /\ (last.op = "delete_movie" /\ last.args = last'.args /\ last.ret)
                      => ~last'.ret
               /\ movies_file'.movies = OtherEntries(movies_file.movies, Str(movie_id))
               /\ movies_file'.next_id = movies_file.next_id
               /\ UNCHANGED <<users_file, admins_file, channels_file, requests_file>>

C12_DeleteOnlyThatMovie == [][C12_DeleteStep]_calls

\* a movie was deleted while another movie, a request and a user are stored
C12_Witness ==
    /\ last.op = "delete_movie"
    /\ last.ret = TRUE
    /\ movies_file.movies # <<>>
    /\ requests_file.requests # <<>>
    /\ users_file # <<>>

-----------------------------------------------------------------------------
\* C13: increment_download_count(id) for an id that is not in the movies
\* returns without an exception and leaves every collection as it was: no
\* movie is created, no download count and no next_id changes.
C13_AbsentStep ==
    (/\ last'.op = "increment_download_count"
     /\ ~DictHas(movies_file.movies, Str(last'.args[1])))
        => /\ ~Raised(last')
           /\ last'.ret = None
           /\ UNCHANGED <<movies_file, requests_file, users_file, admins_file,
                          channels_file>>

C13_IncrementAbsentIsNoOp == [][C13_AbsentStep]_calls

\* the count was asked to rise for a deleted movie, beside a stored one
C13_Witness ==
    /\ last.op = "increment_download_count"
    /\ last.args[1] < movies_file.next_id
    /\ ~DictHas(movies_file.movies, Str(last.args[1]))
    /\ movies_file.movies # <<>>

-----------------------------------------------------------------------------
\* C14: the download count of a stored movie is the number of calls of
\* increment_download_count made for its id since add_movie created it,
\* whatever was called in between; a call changes that count and nothing else.
C14_CountsCalls ==
    \A i \in 1..Len(movies_file.movies) :
        LET movie == movies_file.movies[i].v
        IN  /\ movie.movie_id \in DOMAIN issued.increments
            /\ movie.download_count = issued.increments[movie.movie_id]

C14_IncrementStep ==
    (last'.op = "increment_download_count" /\ ~Raised(last'))
        => /\ UNCHANGED <<requests_file, users_file, admins_file, channels_file>>
           /\ movies_file'.next_id = movies_file.next_id
           /\ Len(movies_file'.movies) = Len(movies_file.movies)
           /\ \A i \in 1..Len(movies_file.movies) :
                  LET before == movies_file.movies[i]
                      after == movies_file'.movies[i]
                  IN  /\ after.k = before.k
                      /\ DOMAIN after.v = DOMAIN before.v
                      /\ \A f \in DOMAIN before.v \ {"download_count"} :
                             after.v[f] = before.v[f]
                      /\ before.k # Str(last'.args[1])
                             => after.v.download_count = before.v.download_count

C14_DownloadCount == []C14_CountsCalls /\ [][C14_IncrementStep]_calls

\* a movie was downloaded twice, with a request made and updated and another
\* movie deleted meanwhile
C14_Witness ==
    /\ \E i \in 1..Len(movies_file.movies) :
           movies_file.movies[i].v.download_count = 2
    /\ Len(movies_file.movies) < movies_file.next_id - 1
    /\ \E i \in 1..Len(requests_file.requests) :
           "updated_at" \in DOMAIN requests_file.requests[i].v

-----------------------------------------------------------------------------
\* C15: add_user_if_not_exists(id, first_name, username) returns True exactly
\* when no user of that id was stored; afterwards the user is stored with the
\* given first name and username.  A user that was stored keeps joined_at and
\* is_active, and the file is saved only if the first name or the username
\* differed from the stored one.
C15_UpsertStep ==
    (last'.op = "add_user_if_not_exists" /\ ~Raised(last'))
        => LET user_id == last'.args[1]
               first_name == last'.args[2]
               username == last'.args[3]
               key == Str(user_id)
               existed == DictHas(users_file, key)
               r == add_user_if_not_exists(users_file, user_id, first_name,
                                           username, now)
           IN  /\ last'.ret = ~existed
               /\ DictHas(users_file', key)
               /\ DictGet(users_file', key).first_name = first_name
               /\ DictGet(users_file', key).username = username
               /\ existed =>
                      LET before == DictGet(users_file, key)
                          after == DictGet(users_file', key)
                          differed == \/ before.first_name # first_name
                                      \/ before.username # username
                      IN  /\ after.joined_at = before.joined_at
                          /\ after.is_active = before.is_active
                          /\ r.saved = differed
                          /\ ~differed => users_file' = users_file

C15_UpsertUserSeen == [][C15_UpsertStep]_calls

\* the first user was seen again under another name, after a second user
C15_Witness ==
    /\ last.op = "add_user_if_not_exists"
    /\ last.ret = FALSE
    /\ last.args[2] = "Bob"
    /\ Len(users_file) >= 2
    /\ DictIndex(users_file, Str(last.args[1])) = 1
    /\ now >= 2

-----------------------------------------------------------------------------
\* C16: update_request_status(id, status) of a stored request sets its status
\* and returns the updated record; user_id, movie_name and requested_at of the
\* request, every other request and next_id stay.  For an id that is not
\* stored it returns None without an exception and the requests stay.
C16_UpdateStep ==
    (last'.op = "update_request_status" /\ ~Raised(last'))
        => LET key == Str(last'.args[1])
               status == last'.args[2]
               existed == DictHas(requests_file.requests, key)
           IN  /\ DictKeys(requests_file'.requests) = DictKeys(requests_file.requests)
               /\ requests_file'.next_id = requests_file.next_id
               /\ \A i \in 1..Len(requests_file.requests) :
                      LET before == requests_file.requests[i]
                          after == requests_file'.requests[i]
                      IN  /\ after.k = before.k
                          /\ before.k # key => after.v = before.v
                          /\ \A f \in {"request_id", "user_id", "movie_name",
                                        "requested_at"} : after.v[f] = before.v[f]
               /\ existed => /\ DictGet(requests_file'.requests, key).status = status
                              /\ last'.ret = DictGet(requests_file'.requests, key)
               /\ ~existed => /\ requests_file' = requests_file
                               /\ last'.ret = None

C16_UpdateRequestStatus == [][C16_UpdateStep]_calls

\* the older of two requests was fulfilled, the newer one is pending
C16_Witness ==
    /\ last.op = "update_request_status"
    /\ last.args = <<1, "fulfilled">>
    /\ Len(requests_file.requests) >= 2
    /\ requests_file.requests[1].v.status = "fulfilled"
    /\ requests_file.requests[2].v.status = "pending"

-----------------------------------------------------------------------------
\* the number of stored requests whose status is pending
PendingNumber(file) ==
    Cardinality({i \in 1..Len(file.requests) :
                    file.requests[i].v.status = "pending"})

\* the pages of get_pending_requests at offsets O, O + L, O + 2L, ... up to
\* the first empty page, concatenated
RECURSIVE PendingPages(_, _, _, _)
PendingPages(rfile, ufile, L, O) ==
    LET page == get_pending_requests(rfile, ufile, L, O)
    IN  IF Len(page) = 0 THEN <<>>
        ELSE page \o PendingPages(rfile, ufile, L, O + L)

\* C17: get_total_pending_requests_count is the number of requests whose
\* status is pending, and the number of requests get_pending_requests returns
\* over all its pages; it rises by one with add_movie_request and falls by
\* one when a pending request is given another status.
C17_CountIsPending ==
    LET count == get_total_pending_requests_count(requests_file)
    IN  /\ count = PendingNumber(requests_file)
        /\ \A L \in 1..MaxLimit :
               Len(PendingPages(requests_file, users_file, L, 0)) = count
        /\ (last.op = "get_total_pending_requests_count" /\ ~Raised(last))
               => last.ret = PendingNumber(requests_file)

C17_CountStep ==
    LET count == get_total_pending_requests_count(requests_file)
        count_after == get_total_pending_requests_count(requests_file')
    IN  /\ (last'.op = "add_movie_request" /\ ~Raised(last'))
               => count_after = count + 1
        /\ (/\ last'.op = "update_request_status" /\ ~Raised(last')
            /\ DictHas(requests_file.requests, Str(last'.args[1]))
            /\ DictGet(requests_file.requests, Str(last'.args[1])).status = "pending"
            /\ last'.args[2] # "pending")
               => count_after = count - 1

C17_PendingCount == []C17_CountIsPending /\ [][C17_CountStep]_calls

\* one request was counted as pending beside one that was fulfilled
C17_Witness ==
    /\ last.op = "get_total_pending_requests_count"
    /\ last.ret = 1
    /\ Len(requests_file.requests) = 2
    /\ requests_file.requests[1].v.status = "fulfilled"

-----------------------------------------------------------------------------
\* the stored movies whose lowercased title contains the lowercased query, and
\* those whose title starts with the letter in either case, in the order of
\* the collection
TitleMatches(file, query) ==
    SelectSeq(DictValues(file.movies), LAMBDA movie :
        Contains(Lower(query), Lower(Get(movie, "title", <<>>))))

LetterMatches(file, letter) ==
    SelectSeq(DictValues(file.movies), LAMBDA movie :
        LET title == Get(movie, "title", <<>>)
        IN  title # <<>> /\ Lower(<<title[1]>>) = Lower(letter))

\* seq holds the first elements of the sequence all, at most limit of them
FirstAtMost(seq, all, limit) ==
    /\ Len(seq) <= limit
    /\ Len(seq) <= Len(all)
    /\ seq = SubSeq(all, 1, Len(seq))

\* C18: for a limit >= 0, search_movies returns at most limit movies, each
\* with the lowercased query in its lowercased title, the first such movies
\* in the order of the collection; get_movies_by_first_letter returns at most
\* limit movies, each with a title that starts with the letter in either case.
C18_SearchWithinLimit ==
    /\ (last.op = "search_movies" /\ ~Raised(last) /\ last.args[2] >= 0)
           => FirstAtMost(last.ret, TitleMatches(movies_file, last.args[1]),
                          last.args[2])
    /\ (last.op = "get_movies_by_first_letter" /\ ~Raised(last)
            /\ last.args[2] >= 0)
           => FirstAtMost(last.ret, LetterMatches(movies_file, last.args[1]),
                          last.args[2])

-----------------------------------------------------------------------------
\* the stored movies of an uploader, the one added last first
UploadedBy(file, admin_id) ==
    LET uploaded == SelectSeq(DictValues(file.movies), LAMBDA movie :
                        Get(movie, "added_by", None) = admin_id)
        added_at == [i \in 1..Len(uploaded) |-> uploaded[i].added_at]
    IN  StableSort(uploaded, SubSeq(added_at, 1, Len(uploaded)), TRUE)

\* C19: on an initialized store, get_movies_by_uploader(admin_id, limit)
\* returns the movies whose added_by is admin_id, the one added last first,
\* cut to limit; the empty list when the uploader has no movie.
C19_UploaderMovies ==
    (last.op = "get_movies_by_uploader" /\ last.args[2] >= 0)
        => /\ ~Raised(last)
           /\ last.ret = PySlice(UploadedBy(movies_file, last.args[1]), 0,
                                 last.args[2])

-----------------------------------------------------------------------------
\* the operations on the movies and on the requests that the claim C20 names
MovieOperations == {"get_movie_details", "search_movies", "get_movies_by_first_letter",
               "get_movies_by_category", "add_movie"}
RequestOperations == {"get_pending_requests", "get_total_pending_requests_count",
                 "add_movie_request"}

\* C20: when the file of a collection does not exist or does not hold JSON,
\* so that load_json gives {}, no operation on the collection raises:
\* get_movie_details returns None, the searches, get_movies_by_category and
\* get_pending_requests return [], get_total_pending_requests_count returns 0,
\* add_movie and add_movie_request do not fail.
C20_UnreadableStorage ==
    /\ (load_json(movies_file) = EmptyDict /\ last.op \in MovieOperations)
           => /\ ~Raised(last)
              /\ last.op = "get_movie_details" => last.ret = None
              /\ last.op \in {"search_movies", "get_movies_by_first_letter",
                               "get_movies_by_category"} => last.ret = <<>>
    /\ (load_json(requests_file) = EmptyDict /\ last.op \in RequestOperations)
           => /\ ~Raised(last)
              /\ last.op = "get_pending_requests" => last.ret = <<>>
              /\ last.op = "get_total_pending_requests_count" => last.ret = 0

\* C21: every request get_pending_requests returns carries the stored record of
\* its requesting user, or an empty record when no user with that id is stored,
\* and the call does not raise because of a missing user.
C21_AttachedUsers ==
    last.op = "get_pending_requests" =>
        /\ ~Raised(last)
        /\ \A i \in 1..Len(last.ret) :
               LET request_data == last.ret[i]
                   key == Str(request_data.user_id)
               IN  /\ "users" \in DOMAIN request_data
                   /\ IF DictHas(users_file, key)
                      THEN request_data.users = DictGet(users_file, key)
                      ELSE request_data.users = <<>>

\* a page holding a request of a stored user and a request of an unknown user
C21_Witness ==
    /\ last.op = "get_pending_requests"
    /\ ~Raised(last)
    /\ \E i, j \in 1..Len(last.ret) :
           /\ last.ret[i].users = <<>>
           /\ ~DictHas(users_file, Str(last.ret[i].user_id))
           /\ last.ret[j].users # <<>>
           /\ DictHas(users_file, Str(last.ret[j].user_id))

\* a file that holds a document at all, readable or not
Exists(file) == ~FileNotFoundError(file)

\* C22: initialize_database, run at any point, leaves every collection whose
\* file exists as it is and gives every absent collection its empty document
\* (movies and requests: next_id 1 and no items; users, admins and channels:
\* an empty mapping); run twice in a row, the second run changes nothing.
C22_InitializeStep ==
    last'.op = "initialize_database" =>
        /\ Exists(movies_file') /\ Exists(requests_file') /\ Exists(users_file')
        /\ Exists(admins_file') /\ Exists(channels_file')
        /\ IF Exists(movies_file)
           THEN movies_file' = movies_file
           ELSE movies_file'.next_id = 1 /\ movies_file'.movies = <<>>
        /\ IF Exists(requests_file)
           THEN requests_file' = requests_file
           ELSE requests_file'.next_id = 1 /\ requests_file'.requests = <<>>
        /\ IF Exists(users_file)
           THEN users_file' = users_file
           ELSE users_file' = <<>>
        /\ IF Exists(admins_file)
           THEN admins_file' = admins_file
           ELSE admins_file' = <<>>
        /\ IF Exists(channels_file)
           THEN channels_file' = channels_file
           ELSE channels_file' = <<>>
        /\ last.op = "initialize_database" =>
               UNCHANGED <<movies_file, requests_file, users_file, admins_file,
                           channels_file>>

C22_InitializeDatabase == [][C22_InitializeStep]_calls

\* initialization has re-created a movies file that was lost after a movie was
\* added, and has kept the stored user and the stored request
C22_Witness ==
    /\ last.op = "initialize_database"
    /\ issued.movies # <<>>
    /\ movies_file = [next_id |-> 1, movies |-> <<>>]
    /\ Exists(users_file) /\ ~JSONDecodeError(users_file)
    /\ users_file # <<>>
    /\ issued.requests # <<>>
    /\ Exists(requests_file)
    /\ requests_file.next_id = 2

\* two states of a file that hold the same document
SameDocument(before, after) ==
    IF JSONDecodeError(before) \/ JSONDecodeError(after)
    THEN JSONDecodeError(before) /\ JSONDecodeError(after)
    ELSE after = before

\* C23: a write operation whose save step fails raises nothing to its caller
\* and leaves the persisted collection as it was before the operation began.
C23_FailedSaveStep ==
    "save" \in DOMAIN last' =>
        /\ ~Raised(last')
        /\ SameDocument(movies_file, movies_file')
        /\ SameDocument(users_file, users_file')

C23_FailedSave == [][C23_FailedSaveStep]_calls

\* the operations of the store that only read
ReadOperations ==
    {"user_exists", "get_user_role", "get_admin_info", "get_all_admins",
     "get_movie_details", "search_movies", "get_movies_by_first_letter",
     "get_movies_by_category", "get_channel_info", "get_all_channels",
     "get_pending_requests", "get_total_pending_requests_count"}

\* C24: a read operation leaves every file of the store as it is, and after a
\* caller has changed a record a read returned (the user record attached to a
\* request included), the same read still gives what it gave before the
\* change.
C24_ReadStep ==
    last'.op \in ReadOperations =>
        UNCHANGED <<movies_file, requests_file, users_file, admins_file,
                    channels_file, tokens_file>>

C24_ChangeUnseen ==
    last.op = "change" =>
        /\ held.changed # held.ret
        /\ Read(held.op, held.args) = held.ret

C25_IssuedRequestsKept ==
    \A i \in 1..Len(issued.requests) :
        /\ DictHas(requests_file.requests, Str(issued.requests[i]))
        /\ DictGet(requests_file.requests, Str(issued.requests[i])).request_id
               = issued.requests[i]

C25_KeepStep ==
    /\ \A user_id \in UserIds :
           user_exists(users_file, user_id) => user_exists(users_file', user_id)
    /\ last'.op = "add_user_if_not_exists" =>
           user_exists(users_file', last'.args[1])
    /\ \A request_id \in RequestIds :
           DictHas(requests_file.requests, Str(request_id))
               => DictHas(requests_file'.requests, Str(request_id))

C25_NothingRemoved == []C25_IssuedRequestsKept /\ [][C25_KeepStep]_calls

\* user 1 is still stored after a change of profile, and request 1 is still
\* stored after it was fulfilled
C25_Witness ==
    /\ last.op = "user_exists" /\ last.args = <<1>> /\ last.ret
    /\ DictGet(users_file, "1").first_name = "Bob"
    /\ issued.requests # <<>>
    /\ DictGet(requests_file.requests, "1").status = "fulfilled"

\* C26: when the loads and saves of two callers interleave no update is lost:
\* the ids add_movie returned are distinct and their movies are stored, and
\* once no caller is inside an operation the download count of every movie is
\* the number of increment_download_count calls made for it.
C26_NoLostUpdate ==
    /\ \A i, j \in 1..Len(issued.movies) :
           i # j => issued.movies[i] # issued.movies[j]
    /\ (\A caller \in Callers : callers[caller] = <<>>) =>
           \A i \in 1..Len(issued.movies) :
               LET movie_id_str == Str(issued.movies[i])
               IN  /\ DictHas(movies_file.movies, movie_id_str)
                   /\ DictGet(movies_file.movies, movie_id_str).download_count
                          = issued.increments[issued.movies[i]]

\* C27: /add_movie takes the dialogue to the entry of the title only for a
\* caller whose role is owner or admin and ends it at once for every other
\* caller, so a movie row or a movie file row is written only in a dialogue
\* that began with the role owner or admin.
C27_EntryStep ==
    /\ last'.op = "BotHandlers.add_movie" =>
           LET caller == last'.args[1]
           IN  IF dialogue'[caller].role \in {ROLE_OWNER, ROLE_ADMIN}
               THEN conversation'[caller] = ADDING_MOVIE_TITLE
               ELSE conversation'[caller] = END
    /\ \A user_id \in UserIds :
           (conversation'[user_id] = ADDING_MOVIE_TITLE
                /\ conversation[user_id] # ADDING_MOVIE_TITLE)
               => /\ last'.op = "BotHandlers.add_movie"
                  /\ conversation[user_id] = END
    /\ (movies_table' # movies_table \/ movie_files' # movie_files) =>
           /\ last'.op = "BotHandlers.receive_movie_file"
           /\ dialogue[last'.args[1]].number > 0
           /\ dialogue[last'.args[1]].command = "add_movie"
           /\ dialogue[last'.args[1]].role \in {ROLE_OWNER, ROLE_ADMIN}
           /\ movies_table' # movies_table =>
                  movies_table'[Len(movies_table')].created_by = last'.args[1]

C27_OnlyStaffUploads == [][C27_EntryStep]_calls

\* user 1, demoted after an upload as admin, is turned away by /add_movie
C27_Witness ==
    /\ last.op = "BotHandlers.add_movie"
    /\ last.args = <<1>>
    /\ last.ret = END
    /\ dialogue[1].role = ROLE_USER
    /\ \E i \in 1..Len(movies_table) : movies_table[i].created_by = 1

\* C28: the state that takes the id of the new admin is entered only by
\* /add_admin of the owner, so set_user_role(id, admin) runs only in a
\* dialogue the owner began; a text that is not a number leaves the dialogue
\* in that state and every role as it was.
C28_PromoteStep ==
    /\ \A user_id \in UserIds :
           (conversation'[user_id] = ADMIN_USER_ID
                /\ conversation[user_id] # ADMIN_USER_ID)
               => /\ last'.op = "BotHandlers.add_admin"
                  /\ user_id = OWNER_USER_ID
                  /\ dialogue'[user_id].role = ROLE_OWNER
    /\ last'.op = "BotHandlers.add_admin" =>
           (conversation'[last'.args[1]] = ADMIN_USER_ID
                <=> last'.args[1] = OWNER_USER_ID)
    /\ (\E id \in DOMAIN users_table' :
            /\ users_table'[id] = ROLE_ADMIN
            /\ id \in DOMAIN users_table => users_table[id] # ROLE_ADMIN) =>
           /\ last'.op = "BotHandlers.receive_admin_user_id"
           /\ last'.args[1] = OWNER_USER_ID
           /\ dialogue[last'.args[1]].command = "add_admin"
           /\ dialogue[last'.args[1]].role = ROLE_OWNER
    /\ (last'.op = "BotHandlers.receive_admin_user_id"
            /\ \E i \in 1..Len(last'.args[2]) :
                   last'.args[2][i] \notin {" ", "0", "1", "2", "3", "4", "5",
                                            "6", "7", "8", "9"}) =>
           /\ conversation'[last'.args[1]] = ADMIN_USER_ID
           /\ users_table' = users_table

C28_OnlyOwnerPromotes == [][C28_PromoteStep]_calls

\* user 1, whom the owner has made an admin, is turned away by /add_admin
C28_Witness ==
    /\ last.op = "BotHandlers.add_admin"
    /\ last.args = <<1>>
    /\ last.ret = END
    /\ dialogue[1].role = ROLE_ADMIN
    /\ 1 \in DOMAIN users_table
    /\ users_table[1] = ROLE_ADMIN

\* the steps of the state of a conversation that the single-movie dialogue
\* takes
DialogueOrder ==
    {<<END, ADDING_MOVIE_TITLE>>,
     <<ADDING_MOVIE_TITLE, SELECTING_UPLOAD_TYPE>>,
     <<SELECTING_UPLOAD_TYPE, SELECTING_QUALITY>>,
     <<SELECTING_UPLOAD_TYPE, UPLOADING_EPISODE>>,
     <<SELECTING_QUALITY, UPLOADING_FILE>>, <<SELECTING_QUALITY, END>>,
     <<UPLOADING_FILE, SELECTING_QUALITY>>, <<UPLOADING_FILE, END>>}

\* the qualities uploaded so far in the conversation of a user
UploadedIn(history) == {history.files[i] : i \in 1..Len(history.files)}

\* C29: the single-movie dialogue goes title, upload type, quality, file; a
\* file is taken only after a quality was selected; after every file taken
\* the dialogue is back at the selection of the quality, with buttons for just
\* the qualities not uploaded yet, and it ends, with the links sent, when the
\* caller finishes or when 480p, 720p and 1080p are all uploaded; a message
\* without a file leaves the dialogue waiting for the file.
C29_DialogueStep ==
    \A user_id \in Uploaders :
        LET taken == dialogue'[user_id].number = dialogue[user_id].number
                        /\ dialogue[user_id].number > 0
                        /\ dialogue'[user_id].files # dialogue[user_id].files
        IN  /\ (conversation'[user_id] # conversation[user_id]) =>
                   <<conversation[user_id], conversation'[user_id]>> \in DialogueOrder
            /\ (movie_files' # movie_files \/ taken) =>
                   /\ last'.op = "BotHandlers.receive_movie_file"
                   /\ conversation[last'.args[1]] = UPLOADING_FILE
                   /\ "selected_quality" \in DOMAIN user_data[last'.args[1]]
                   /\ movie_files' # movie_files =>
                          movie_files'[Len(movie_files')].quality
                              = user_data[last'.args[1]].selected_quality
            /\ taken =>
                   IF UploadedIn(dialogue'[user_id]) = {"480p", "720p", "1080p"}
                   THEN /\ conversation'[user_id] = END
                        /\ "message" \in DOMAIN last'
                   ELSE /\ conversation'[user_id] = SELECTING_QUALITY
                        /\ keyboard'[user_id] =
                               {QualityButton(q) :
                                    q \in {"480p", "720p", "1080p"}
                                            \ UploadedIn(dialogue'[user_id])}
                                   \cup {"no_more_qualities"}
                        /\ "message" \notin DOMAIN last'
            /\ last'.op = "BotHandlers.handle_no_more_qualities" =>
                   /\ conversation[last'.args[1]] = SELECTING_QUALITY
                   /\ conversation'[last'.args[1]] = END
                   /\ "message" \in DOMAIN last'
            /\ "message" \in DOMAIN last' =>
                   /\ last'.op \in {"BotHandlers.handle_no_more_qualities",
                                    "BotHandlers.receive_movie_file"}
                   /\ \A i \in 1..Len(last'.message.links) :
                          last'.message.links[i].quality
                              \in UploadedIn(dialogue'[last'.args[1]])
            /\ (last'.op = "BotHandlers.receive_movie_file"
                    /\ last'.args[1] = user_id /\ last'.args[2] = None) =>
                   /\ conversation[user_id] = UPLOADING_FILE
                   /\ conversation'[user_id] = UPLOADING_FILE
                   /\ UNCHANGED <<movies_table, movie_files, download_tokens>>

C30_FileStep ==
    movie_files' # movie_files =>
        LET caller == last'.args[1]
            row == movie_files'[Len(movie_files')]
            created == dialogue'[caller].created
        IN  /\ Len(created) = 1
            /\ row.movie_id = created[1]
            /\ movies_table'[row.movie_id].title = dialogue'[caller].title
            /\ movies_table'[row.movie_id].created_by = caller

C30_OwnMovie == [][C30_FileStep]_calls

====
